---- MODULE Spec2Model ----
(***************************************************************************)
(* A model of go-floki/jade: the template parser with its inheritance      *)
(* merge (src/parser/parser.go) and the code generator (src/compiler.go).  *)
(*                                                                         *)
(* Five specifications share the module:                                   *)
(*   Spec         the parser: the tree of Parser instances rooted at the   *)
(*                requested file, their token streams, the heap of Blocks  *)
(*                and the Go call stack of Parse / parseBlock / ...        *)
(*   SpecSyntax   the same parser on files that hold imports, repeated     *)
(*                directives and indentation that is not balanced.         *)
(*   SpecTokens   Parse of a parser made from a string, as a function of   *)
(*                the token stream: tags and their headers, blocks,        *)
(*                conditions.                                              *)
(*   SpecCompile  the Compiler: Parse, CompileString, CompileWriter and    *)
(*                the package-level Compile over a set of small ASTs.      *)
(*   SpecFile     the Compiler's ParseFile on the files of SpecSyntax,     *)
(*                with Parse of a string before and after it.              *)
(* A pointer is an index into a heap sequence; 0 is the nil pointer.       *)
(***************************************************************************)
EXTENDS Integers, Sequences, FiniteSets, TLC

\* ---------------------------------------------------------------- bounds
\* Longest body (number of tags) of a named block in a generated file.
MaxBody == 2
\* Number of times the caller invokes Parse on the root parser.
MaxCalls == 2
\* Number of nodes the loop of Parse pushes into one block while it stands on
\* a token that parse() does not consume.
MaxSpin == 3
\* Number of frames the Go stack holds before the runtime ends the program
\* with `fatal error: stack overflow`.
MaxStack == 12

\* ------------------------------------------------------ parser variables
VARIABLES
    fs,        \* file name -> token stream, fixed when the file is first opened
    parsers,   \* heap of Parser instances
    blocks,    \* heap of Block / NamedBlock objects
    stack,     \* the Go call stack, innermost frame last
    retval,    \* the *Block returned by the call that returned last
    status,    \* "idle" | "running" | "done" | "error" | "fatal" |
               \* "returned" (ParseFile handed the outcome to its caller)
    ret,       \* what the caller's last Parse call returned (0: nothing yet)
    calls,     \* number of Parse calls the caller has made
    panicMsg   \* the value of the panic that ended the last call ("": none)

pvars == <<fs, parsers, blocks, stack, retval, status, ret, calls, panicMsg>>

VARIABLES
    c,        \* the Compiler last created: node, buffer, indentLevel,
              \* tempvarIndex, mixins, PrettyPrint
    res,      \* what the last call returned: [op, str, err]
    before,   \* what the call before it returned
    w,        \* the io.Writer handed to the last CompileWriter: what it holds
    raised,   \* the panic raised inside the last call ("": none)
    ops       \* number of calls made on the Compiler

cvars == <<c, res, before, w, raised, ops>>

VARIABLES
    scanned,  \* the token stream the scanner of a StringParser delivers
    parsed    \* what Parse on that parser did: returned a tree, panicked,
              \* or is still in its loop

tvars == <<scanned, parsed>>
vars == <<pvars, cvars, tvars>>

\* ------------------------------------------------------- tokens and files
Tok(kind, value, modifier) == [Kind |-> kind, Value |-> value, Modifier |-> modifier]

tokEOF == Tok("tokEOF", "", "")
TagTok == Tok("tokTag", "p", "")
IndentTok == Tok("tokIndent", "", "")
OutdentTok == Tok("tokOutdent", "", "")

BlockNames == {"X", "Y"}
Modifiers == {"", "append", "prepend"}

\* The token kinds after which parseTagReal keeps reading the tag.
TagContinuation ==
    {"tokIndent", "tokSemicolon", "tokId", "tokClassName", "tokAttribute",
     "tokAttributeList", "tokText", "tokBuffered"}

Tags(n) == [i \in 1..n |-> TagTok]

\* `block X` / `block append X` / `block prepend X` with a body of n tags
\* (n = 0: the directive alone, with no indented body).
NamedBlockToks(name, modifier, n) ==
    <<Tok("tokNamedBlock", name, modifier)>>
        \o (IF n = 0 THEN <<>> ELSE <<IndentTok>> \o Tags(n) \o <<OutdentTok>>)

ExtendsToks(target) ==
    IF target = "" THEN <<>> ELSE <<Tok("tokExtends", target, "")>>

ImportTok(target) == Tok("tokImport", target, "")
ElseTok == Tok("tokElse", "", "")
AttributeTok == Tok("tokAttribute", "id", "")

\* The files on disk. "d.jade" does not exist. a, b and c hold inheritance
\* chains; m, n and o hold every construct of the parser, well formed or not.
SyntaxFiles == {"m.jade", "n.jade", "o.jade"}
Files == {"a.jade", "b.jade", "c.jade"} \cup SyntaxFiles

\* What a file may extend.
ExtendsTargets(f) ==
    CASE f = "a.jade" -> {"", "b"}
      [] f = "b.jade" -> {"", "c.jade", "d"}
      [] OTHER -> {""}

XBlocks ==
    {<<>>} \cup {NamedBlockToks("X", m, n) : m \in Modifiers, n \in 0..MaxBody}

YBlocks == {<<>>, NamedBlockToks("Y", "", 1)}

\* The contents m.jade may have: repeated extends, repeated and nested named
\* blocks, indentation that is not balanced, tokens no construct starts
\* with, imports, and an extends of itself.
RootStreams ==
    {<<TagTok>>,
     ExtendsToks("n") \o <<TagTok>>,
     ExtendsToks("n") \o ExtendsToks("n"),
     ExtendsToks("n") \o <<TagTok>> \o ExtendsToks("o"),
     ExtendsToks("n") \o NamedBlockToks("X", "", 1) \o ExtendsToks("o"),
     ExtendsToks("n") \o <<Tok("tokNamedBlock", "X", ""), IndentTok>>
        \o ExtendsToks("n") \o <<OutdentTok>>,
     NamedBlockToks("X", "", 0) \o NamedBlockToks("X", "", 0),
     NamedBlockToks("X", "", 1) \o <<TagTok>> \o NamedBlockToks("X", "append", 1),
     <<Tok("tokNamedBlock", "X", ""), IndentTok>>
        \o NamedBlockToks("X", "", 0) \o <<OutdentTok>>,
     <<Tok("tokNamedBlock", "X", ""), IndentTok, TagTok>>
        \o NamedBlockToks("X", "append", 1) \o <<OutdentTok>>,
     <<Tok("tokNamedBlock", "X", "prepend"), IndentTok>>
        \o NamedBlockToks("Y", "", 1) \o <<OutdentTok, TagTok>>,
     <<Tok("tokNamedBlock", "X", ""), IndentTok, TagTok>>,
     <<TagTok, OutdentTok>>,
     <<IndentTok, TagTok, OutdentTok, TagTok>>,
     <<IndentTok, TagTok>>,
     <<TagTok, ElseTok>>,
     <<Tok("tokNamedBlock", "X", ""), IndentTok, AttributeTok, OutdentTok>>,
     <<Tok("tokNamedBlock", "X", ""), IndentTok, ElseTok, OutdentTok>>,
     <<ImportTok("n"), ImportTok("n")>>,
     <<ImportTok("n"), TagTok, ImportTok("n.jade")>> \o NamedBlockToks("X", "", 1),
     ExtendsToks("o") \o <<ImportTok("n")>> \o NamedBlockToks("X", "append", 1)
        \o <<ImportTok("n")>>,
     <<Tok("tokNamedBlock", "X", ""), IndentTok, ImportTok("n"), OutdentTok,
       ImportTok("n")>>,
     <<TagTok, ImportTok("d")>>,
     ExtendsToks("m") \o <<TagTok>>,
     ExtendsToks("m.jade"),
     <<TagTok>> \o ExtendsToks("n")}

\* What m.jade extends or imports; n.jade may extend m.jade or itself.
SyntaxStreams(f) ==
    CASE f = "m.jade" -> RootStreams
      [] f = "n.jade" ->
            {<<TagTok>>,
             NamedBlockToks("X", "", 1),
             ExtendsToks("o") \o NamedBlockToks("X", "append", 1),
             <<TagTok, ElseTok>>,
             ExtendsToks("m") \o <<TagTok>>,
             NamedBlockToks("X", "", 1) \o ExtendsToks("n")}
      [] OTHER -> {<<TagTok>>, <<TagTok>> \o NamedBlockToks("X", "", 1)}

\* The contents a file may have. Those of a, b and c: an optional extends,
\* one tag outside every block, then block X and block Y, each optional.
Streams(f) ==
    IF f \in SyntaxFiles THEN SyntaxStreams(f)
    ELSE {ExtendsToks(t) \o <<TagTok>> \o x \o y :
            t \in ExtendsTargets(f), x \in XBlocks, y \in YBlocks}

\* ------------------------------------------------------------ heap objects
NoBlocks == [n \in BlockNames |-> 0]

NewParser(filename, toks) ==
    [filename |-> filename, toks |-> toks, pos |-> 0, currenttoken |-> tokEOF,
     namedBlocks |-> NoBlocks, parent |-> 0, result |-> 0]

\* Name = "" for a plain Block; owner is the parser that allocated it.
NewBlockObj(owner, name, modifier) ==
    [Children |-> <<>>, Name |-> name, Modifier |-> modifier, owner |-> owner]

\* A tag with no header items and no body. p and i (the parser and the index
\* of its token) give every tag an identity; nb is the named block of p whose
\* body it was parsed in ("" outside every named block).
TagNode(p, i, nb) == [kind |-> "tag", p |-> p, i |-> i, nb |-> nb, id |-> 0]
BlockRef(b) == [kind |-> "block", p |-> 0, i |-> 0, nb |-> "", id |-> b]

push(children, node) == Append(children, node)
pushFront(children, node) == <<node>> \o children

\* scanner.Next(): the next token, tokEOF for ever once the stream is over.
advance(P) ==
    LET n == P.pos + 1 IN
    IF n <= Len(P.toks)
    THEN [P EXCEPT !.pos = n, !.currenttoken = P.toks[n]]
    ELSE [P EXCEPT !.currenttoken = tokEOF]

\* ------------------------------------------------------------- call stack
\* fn: the Go function the frame belongs to; p: its receiver; blk: the block
\* it builds; pc: where it stands; q: the parser it called Parse on; nb: the
\* named block whose body a parseBlock frame reads.
Frame(fn, p, blk, pc, q, nb) ==
    [fn |-> fn, p |-> p, blk |-> blk, pc |-> pc, q |-> q, nb |-> nb]

Top == stack[Len(stack)]
Below == stack[Len(stack) - 1]
Pop(s) == SubSeq(s, 1, Len(s) - 1)
Running == status = "running" /\ stack # <<>>
InLoop == Running /\ Top.fn \in {"Parse", "parseBlock"} /\ Top.pc = "loop"
Cur == parsers[Top.p].currenttoken

\* A panic unwinds every frame: each Parse on the stack re-panics from its
\* deferred recover, none of them reaches `p.result = block`.
Panic(msg) ==
    /\ stack' = <<>>
    /\ status' = "error"
    /\ panicMsg' = msg

\* A faulty Parse that never finds its result cached.
CachedNever(p) == FALSE

\* Parse: `if p.result != nil { return p.result }`.
Cached(p) == parsers[p].result # 0

\* A faulty parseExtends that never sees the parent it has.
HasParentNever(p) == FALSE

\* A faulty parseExtends that sees a parent where there is none.
HasParentAlways(p) == TRUE

\* parseExtends: `if p.parent != nil`.
HasParent(p) == parsers[p].parent # 0

ModifierOf(tok) ==
    CASE tok.Modifier = "append" -> "append"
      [] tok.Modifier = "prepend" -> "prepend"
      [] OTHER -> "default"

\* parseRelativeFile: the target joined to the directory of the including
\* file (every file of the model lies in one directory) and given the
\* default extension when its base name has no dot.
HasDot(name) == name \in Files \cup {"d.jade"}
RelativeFile(target) == IF HasDot(target) THEN target ELSE target \o ".jade"

\* ------------------------------------------------------ the merge of Parse
RECURSIVE AppendLoop(_, _, _)
\* `for i := 0; i < len(ours.Children); i++ { prev.push(ours.Children[i]) }`
AppendLoop(prev, ours, i) ==
    IF i > Len(ours) THEN prev ELSE AppendLoop(push(prev, ours[i]), ours, i + 1)

RECURSIVE PrependLoop(_, _, _)
\* `for i := len(ours.Children) - 1; i >= 0; i-- { prev.pushFront(ours.Children[i]) }`
PrependLoop(prev, ours, i) ==
    IF i < 1 THEN prev ELSE PrependLoop(pushFront(prev, ours[i]), ours, i - 1)

\* A faulty merge: the prepend loop counting upwards.
RECURSIVE PrependLoopUp(_, _, _)
PrependLoopUp(prev, ours, i) ==
    IF i > Len(ours) THEN prev ELSE PrependLoopUp(pushFront(prev, ours[i]), ours, i + 1)

MergeChildrenPrependUp(modifier, prev, ours) ==
    CASE modifier = "append" -> AppendLoop(prev, ours, 1)
      [] modifier = "prepend" -> PrependLoopUp(prev, ours, 1)
      [] OTHER -> ours

\* The `switch ours.Modifier` of Parse: the new children of the parent's block.
MergeChildren(modifier, prev, ours) ==
    CASE modifier = "append" -> AppendLoop(prev, ours, 1)
      [] modifier = "prepend" -> PrependLoop(prev, ours, Len(ours))
      [] OTHER -> ours

\* The whole `for _, prev := range p.parent.namedBlocks` loop, on the heap:
\* each iteration writes one NamedBlock of the parent, so the iteration
\* order of the map does not show.
MergeInto(bl, child, parent) ==
    [b \in DOMAIN bl |->
        IF /\ bl[b].Name # ""
           /\ parent.namedBlocks[bl[b].Name] = b
           /\ child.namedBlocks[bl[b].Name] # 0
        THEN LET ours == bl[child.namedBlocks[bl[b].Name]] IN
             [bl[b] EXCEPT !.Children = MergeChildren(ours.Modifier, @, ours.Children)]
        ELSE bl[b]]

\* A faulty Parse that keeps its own root when it has a parent.
MergedRootOwn(p, own) == own

\* `block = p.parent.result`
MergedRoot(p, own) == parsers[parsers[p].parent].result

\* ---------------------------------------------------------------- actions
\* What the frame that called Parse sees when the callee returns b.
ReturnFromParse(b) ==
    /\ stack' = Pop(stack)
    /\ retval' = b
    /\ IF Len(stack) = 1
       THEN status' = "done" /\ ret' = b
       ELSE UNCHANGED <<status, ret>>

\* The caller invokes Parse on the root parser.
CallParse ==
    /\ UNCHANGED <<cvars, tvars>>
    /\ status \in {"idle", "done"}
    /\ stack = <<>>
    /\ calls < MaxCalls
    /\ calls' = calls + 1
    /\ IF Cached(1)
       THEN /\ ret' = parsers[1].result
            /\ retval' = parsers[1].result
            /\ status' = "done"
            /\ UNCHANGED <<fs, parsers, blocks, stack, panicMsg>>
       ELSE /\ blocks' = Append(blocks, NewBlockObj(1, "", ""))
            /\ parsers' = [parsers EXCEPT ![1] = advance(@)]
            /\ stack' = <<Frame("Parse", 1, Len(blocks) + 1, "loop", 0, "")>>
            /\ status' = "running"
            /\ UNCHANGED <<fs, ret, retval, panicMsg>>

\* parse() on tokTag: parseTag, whose parseTagReal returns at once on a token
\* that does not continue the tag; the loop pushes the tag.
ParseTag ==
    /\ UNCHANGED <<cvars, tvars>>
    /\ InLoop
    /\ Cur.Kind = "tokTag"
    /\ LET p == Top.p
           P2 == advance(parsers[p])
       IN  /\ P2.currenttoken.Kind \notin TagContinuation
           /\ parsers' = [parsers EXCEPT ![p] = P2]
           /\ blocks' = [blocks EXCEPT ![Top.blk].Children =
                            push(@, TagNode(p, parsers[p].pos, Top.nb))]
    /\ UNCHANGED <<fs, stack, retval, status, ret, calls, panicMsg>>

\* A faulty parseNamedBlock that returns its own Block whatever the modifier.
NamedBlockResultInPlace(bl, nbid, owner) == <<bl, BlockRef(nbid)>>

\* The end of parseNamedBlock, from `p.namedBlocks[block.Name] = block` on:
\* <<the heap, the node returned>>. A default block returns its own embedded
\* Block, any other a fresh empty one.
NamedBlockResult(bl, nbid, owner) ==
    IF bl[nbid].Modifier = "default"
    THEN <<bl, BlockRef(nbid)>>
    ELSE <<Append(bl, NewBlockObj(owner, "", "")), BlockRef(Len(bl) + 1)>>

\* parse() on tokNamedBlock: parseNamedBlock up to its parseBlock call, or to
\* its end when no Indent follows.
ParseNamedBlock ==
    /\ UNCHANGED <<cvars, tvars>>
    /\ InLoop
    /\ Cur.Kind = "tokNamedBlock"
    /\ LET p == Top.p
           tok == Cur
           P2 == advance(parsers[p])
           nbid == Len(blocks) + 1
           bl2 == Append(blocks, NewBlockObj(p, tok.Value, ModifierOf(tok)))
       IN  IF parsers[p].namedBlocks[tok.Value] # 0
           THEN /\ Panic("Multiple definitions of named blocks are not permitted.")
                /\ parsers' = [parsers EXCEPT ![p] = P2]
                /\ UNCHANGED <<fs, blocks, retval, ret, calls>>
           ELSE IF P2.currenttoken.Kind = "tokIndent"
           THEN /\ parsers' = [parsers EXCEPT ![p] = advance(P2)]
                /\ blocks' = Append(bl2, NewBlockObj(p, "", ""))
                /\ stack' = stack \o
                     <<Frame("parseNamedBlock", p, nbid, "wait", 0, ""),
                       Frame("parseBlock", p, nbid + 1, "loop", 0, tok.Value)>>
                /\ UNCHANGED <<fs, retval, status, ret, calls, panicMsg>>
           ELSE LET r == NamedBlockResult(bl2, nbid, p) IN
                /\ parsers' = [parsers EXCEPT ![p] =
                                  [P2 EXCEPT !.namedBlocks[tok.Value] = nbid]]
                /\ blocks' = [r[1] EXCEPT ![Top.blk].Children = push(@, r[2])]
                /\ UNCHANGED <<fs, stack, retval, status, ret, calls, panicMsg>>

\* parseBlock at tokOutdent or tokEOF: `p.expectOneOf(tokOutdent, tokEOF)`
\* and the return of the block.
ParseBlockEnd ==
    /\ UNCHANGED <<cvars, tvars>>
    /\ Running
    /\ Top.fn = "parseBlock"
    /\ Cur.Kind \in {"tokOutdent", "tokEOF"}
    /\ parsers' = [parsers EXCEPT ![Top.p] = advance(@)]
    /\ retval' = Top.blk
    /\ stack' = Pop(stack)
    /\ UNCHANGED <<fs, blocks, status, ret, calls, panicMsg>>

\* parseNamedBlock after its parseBlock returned: `block.Block = *(...)`
\* copies the parsed Block into the NamedBlock, which is then registered.
NamedBlockReturn ==
    /\ UNCHANGED <<cvars, tvars>>
    /\ Running
    /\ Top.fn = "parseNamedBlock"
    /\ LET p == Top.p
           nbid == Top.blk
           bl2 == [blocks EXCEPT ![nbid].Children = blocks[retval].Children]
           r == NamedBlockResult(bl2, nbid, p)
       IN  /\ parsers' = [parsers EXCEPT ![p].namedBlocks[blocks[nbid].Name] = nbid]
           /\ blocks' = [r[1] EXCEPT ![Below.blk].Children = push(@, r[2])]
    /\ stack' = Pop(stack)
    /\ UNCHANGED <<fs, retval, status, ret, calls, panicMsg>>

\* parse() on tokExtends: parseExtends up to and including its call of
\* parser.Parse(), which runs to the loop of the new parser.
ParseExtends ==
    /\ UNCHANGED <<cvars, tvars>>
    /\ InLoop
    /\ Cur.Kind = "tokExtends"
    /\ LET p == Top.p
           file == RelativeFile(Cur.Value)
           q == Len(parsers) + 1
       IN  IF HasParent(p)
           THEN /\ Panic("Unable to extend multiple parent templates.")
                /\ UNCHANGED <<fs, parsers, blocks, retval, ret, calls>>
           ELSE IF parsers[p].filename = ""
           THEN /\ Panic("Unable to import or extend in a non filesystem based parser.")
                /\ parsers' = [parsers EXCEPT ![p] = advance(@)]
                /\ UNCHANGED <<fs, blocks, retval, ret, calls>>
           ELSE IF file \notin Files
           THEN /\ Panic("Unable to read " \o file)
                /\ parsers' = [parsers EXCEPT ![p] = advance(@)]
                /\ UNCHANGED <<fs, blocks, retval, ret, calls>>
           ELSE \E s \in (IF fs[file] = <<>> THEN Streams(file) ELSE {fs[file]}) :
                /\ Len(stack) + 2 <= MaxStack
                /\ fs' = [fs EXCEPT ![file] = s]
                /\ parsers' = Append([parsers EXCEPT ![p] = advance(@)],
                                     advance(NewParser(file, s)))
                /\ blocks' = Append(blocks, NewBlockObj(q, "", ""))
                /\ stack' = stack \o
                     <<Frame("parseExtends", p, 0, "wait", q, ""),
                       Frame("Parse", q, Len(blocks) + 1, "loop", 0, "")>>
                /\ UNCHANGED <<retval, status, ret, calls, panicMsg>>

\* parseExtends after parser.Parse() returned: `p.parent = parser` and the
\* empty placeholder Block, which the loop pushes.
ExtendsReturn ==
    /\ UNCHANGED <<cvars, tvars>>
    /\ Running
    /\ Top.fn = "parseExtends"
    /\ parsers' = [parsers EXCEPT ![Top.p].parent = Top.q]
    /\ blocks' = [Append(blocks, NewBlockObj(Top.p, "", ""))
                    EXCEPT ![Below.blk].Children = push(@, BlockRef(Len(blocks) + 1))]
    /\ stack' = Pop(stack)
    /\ UNCHANGED <<fs, retval, status, ret, calls, panicMsg>>

\* Parse at tokEOF with no parent: `p.result = block; return block`.
ParseReturnOwn ==
    /\ UNCHANGED <<cvars, tvars>>
    /\ Running
    /\ Top.fn = "Parse" /\ Top.pc = "loop"
    /\ Cur.Kind = "tokEOF"
    /\ parsers[Top.p].parent = 0
    /\ parsers' = [parsers EXCEPT ![Top.p].result = Top.blk]
    /\ ReturnFromParse(Top.blk)
    /\ UNCHANGED <<fs, blocks, calls, panicMsg>>

\* Parse at tokEOF with a parent: `p.parent.Parse()`.
CallParentParse ==
    /\ UNCHANGED <<cvars, tvars>>
    /\ Running
    /\ Top.fn = "Parse" /\ Top.pc = "loop"
    /\ Cur.Kind = "tokEOF"
    /\ parsers[Top.p].parent # 0
    /\ LET q == parsers[Top.p].parent
           waiting == [stack EXCEPT ![Len(stack)].pc = "merge"]
       IN  IF Cached(q)
           THEN /\ stack' = waiting
                /\ retval' = parsers[q].result
                /\ UNCHANGED <<parsers, blocks>>
           ELSE /\ blocks' = Append(blocks, NewBlockObj(q, "", ""))
                /\ parsers' = [parsers EXCEPT ![q] = advance(@)]
                /\ stack' = Append(waiting,
                                   Frame("Parse", q, Len(blocks) + 1, "loop", 0, ""))
                /\ UNCHANGED retval
    /\ UNCHANGED <<fs, status, ret, calls, panicMsg>>

\* Parse after p.parent.Parse() returned: the merge loop, then
\* `block = p.parent.result; p.result = block; return block`.
Merge ==
    /\ UNCHANGED <<cvars, tvars>>
    /\ Running
    /\ Top.fn = "Parse" /\ Top.pc = "merge"
    /\ LET p == Top.p
           root == MergedRoot(p, Top.blk)
       IN  /\ blocks' = MergeInto(blocks, parsers[p], parsers[parsers[p].parent])
           /\ parsers' = [parsers EXCEPT ![p].result = root]
           /\ ReturnFromParse(root)
    /\ UNCHANGED <<fs, calls, panicMsg>>

\* A faulty parseImport that splices the tree the first parser of the same
\* file returned.
ImportNodeShared(b) ==
    LET file == parsers[blocks[b].owner].filename
        same == {q \in DOMAIN parsers :
                    parsers[q].filename = file /\ parsers[q].result # 0}
    IN  BlockRef(parsers[CHOOSE q \in same : \A r \in same : q <= r].result)

\* parseImport: `node := p.parseRelativeFile(tok.Value).Parse()`, the node
\* the loop pushes.
ImportNode(b) == BlockRef(b)

\* parse() on tokImport: parseImport up to and including its call of Parse()
\* on the parser parseRelativeFile made, which runs to the loop of that parser.
ParseImport ==
    /\ UNCHANGED <<cvars, tvars>>
    /\ InLoop
    /\ Cur.Kind = "tokImport"
    /\ LET p == Top.p
           file == RelativeFile(Cur.Value)
           q == Len(parsers) + 1
       IN  IF parsers[p].filename = ""
           THEN /\ Panic("Unable to import or extend in a non filesystem based parser.")
                /\ parsers' = [parsers EXCEPT ![p] = advance(@)]
                /\ UNCHANGED <<fs, blocks, retval, ret, calls>>
           ELSE IF file \notin Files
           THEN /\ Panic("Unable to read " \o file)
                /\ parsers' = [parsers EXCEPT ![p] = advance(@)]
                /\ UNCHANGED <<fs, blocks, retval, ret, calls>>
           ELSE \E s \in (IF fs[file] = <<>> THEN Streams(file) ELSE {fs[file]}) :
                /\ Len(stack) + 2 <= MaxStack
                /\ fs' = [fs EXCEPT ![file] = s]
                /\ parsers' = Append([parsers EXCEPT ![p] = advance(@)],
                                     advance(NewParser(file, s)))
                /\ blocks' = Append(blocks, NewBlockObj(q, "", ""))
                /\ stack' = stack \o
                     <<Frame("parseImport", p, 0, "wait", q, ""),
                       Frame("Parse", q, Len(blocks) + 1, "loop", 0, "")>>
                /\ UNCHANGED <<retval, status, ret, calls, panicMsg>>

\* parseImport after Parse() returned: the tree is the node the loop pushes.
ImportReturn ==
    /\ UNCHANGED <<cvars, tvars>>
    /\ Running
    /\ Top.fn = "parseImport"
    /\ blocks' = [blocks EXCEPT ![Below.blk].Children = push(@, ImportNode(retval))]
    /\ stack' = Pop(stack)
    /\ UNCHANGED <<fs, parsers, retval, status, ret, calls, panicMsg>>

\* parse() on tokIndent: `return p.parseBlock(nil)`, up to the loop of
\* parseBlock.
ParseIndent ==
    /\ UNCHANGED <<cvars, tvars>>
    /\ InLoop
    /\ Cur.Kind = "tokIndent"
    /\ parsers' = [parsers EXCEPT ![Top.p] = advance(@)]
    /\ blocks' = Append(blocks, NewBlockObj(Top.p, "", ""))
    /\ stack' = stack \o
         <<Frame("parse", Top.p, 0, "wait", 0, ""),
           Frame("parseBlock", Top.p, Len(blocks) + 1, "loop", 0, Top.nb)>>
    /\ UNCHANGED <<fs, retval, status, ret, calls, panicMsg>>

\* parse() after parseBlock(nil) returned: the loop pushes the block.
IndentReturn ==
    /\ UNCHANGED <<cvars, tvars>>
    /\ Running
    /\ Top.fn = "parse"
    /\ blocks' = [blocks EXCEPT ![Below.blk].Children = push(@, BlockRef(retval))]
    /\ stack' = Pop(stack)
    /\ UNCHANGED <<fs, parsers, retval, status, ret, calls, panicMsg>>

\* The loop of Parse on tokOutdent: parse() returns a new empty Block and
\* does not advance, so the loop stands on the same token for ever.
ParseOutdent ==
    /\ UNCHANGED <<cvars, tvars>>
    /\ Running
    /\ Top.fn = "Parse" /\ Top.pc = "loop"
    /\ Cur.Kind = "tokOutdent"
    /\ Len(blocks[Top.blk].Children) < MaxSpin
    /\ blocks' = [Append(blocks, NewBlockObj(Top.p, "", ""))
                    EXCEPT ![Top.blk].Children = push(@, BlockRef(Len(blocks) + 1))]
    /\ UNCHANGED <<fs, parsers, stack, retval, status, ret, calls, panicMsg>>

\* The token kinds of the model that no case of parse() takes, and the one
\* parseBlock refuses outside a tag.
ParseUnexpected ==
    /\ UNCHANGED <<cvars, tvars>>
    /\ InLoop
    /\ Cur.Kind \in {"tokElse", "tokAttribute"}
    /\ Panic(IF Cur.Kind = "tokAttribute" /\ Top.fn = "parseBlock"
             THEN "Conditional attributes must be placed immediately within a parent tag."
             ELSE "Unexpected token: " \o Cur.Kind)
    /\ UNCHANGED <<fs, parsers, blocks, retval, ret, calls>>

\* parseExtends or parseImport about to call Parse on one more parser when
\* the Go stack is full: the runtime ends the program. No panic is raised,
\* no deferred recover runs, nothing is returned.
StackOverflow ==
    /\ UNCHANGED <<cvars, tvars>>
    /\ InLoop
    /\ Cur.Kind \in {"tokExtends", "tokImport"}
    /\ ~(Cur.Kind = "tokExtends" /\ HasParent(Top.p))
    /\ RelativeFile(Cur.Value) \in Files
    /\ Len(stack) + 2 > MaxStack
    /\ stack' = <<>>
    /\ status' = "fatal"
    /\ UNCHANGED <<fs, parsers, blocks, retval, ret, calls, panicMsg>>

\* The requested file is opened by FileParserFs before the first Parse.
ParserInit ==
    /\ \E s \in Streams("a.jade") :
          /\ fs = [f \in Files |-> IF f = "a.jade" THEN s ELSE <<>>]
          /\ parsers = <<NewParser("a.jade", s)>>
    /\ blocks = <<>>
    /\ stack = <<>>
    /\ retval = 0
    /\ status = "idle"
    /\ ret = 0
    /\ calls = 0
    /\ panicMsg = ""

Next ==
    \/ CallParse
    \/ ParseTag
    \/ ParseNamedBlock
    \/ ParseBlockEnd
    \/ NamedBlockReturn
    \/ ParseExtends
    \/ ExtendsReturn
    \/ ParseReturnOwn
    \/ CallParentParse
    \/ Merge

\* m.jade is opened by FileParserFs before the first Parse.
SyntaxInit ==
    /\ \E s \in Streams("m.jade") :
          /\ fs = [f \in Files |-> IF f = "m.jade" THEN s ELSE <<>>]
          /\ parsers = <<NewParser("m.jade", s)>>
    /\ blocks = <<>>
    /\ stack = <<>>
    /\ retval = 0
    /\ status = "idle"
    /\ ret = 0
    /\ calls = 0
    /\ panicMsg = ""

NextSyntax ==
    \/ Next
    \/ ParseImport
    \/ ImportReturn
    \/ ParseIndent
    \/ IndentReturn
    \/ ParseOutdent
    \/ ParseUnexpected
    \/ StackOverflow


\* ================================================================ compiler
\* The Compiler of src/compiler.go. Text is a sequence of non-empty strings,
\* one per piece written; the bytes are their concatenation (Flatten).

\* Most attributes on one tag of a generated template.
MaxAttrs == 2
\* Number of CompileString / CompileWriter / Parse calls on one Compiler.
MaxOps == 3
\* Most temporaries one Compiler hands out within MaxOps calls.
MaxTemp == 12
\* Most items on the header line of a tag of the token catalogue.
MaxHeader == 2
\* Most else parts after the body of an `if` of the token catalogue.
MaxElse == 3


RECURSIVE Flatten(_)
Flatten(segs) == IF segs = <<>> THEN "" ELSE Head(segs) \o Flatten(Tail(segs))

\* ------------------------------------------------------------ go/ast nodes
Ident(name) == [t |-> "Ident", Name |-> name]
BasicLit(value) == [t |-> "BasicLit", Value |-> value]
BinaryExpr(x, op, y) == [t |-> "BinaryExpr", X |-> x, Op |-> op, Y |-> y]
UnaryExpr(op, x) == [t |-> "UnaryExpr", Op |-> op, X |-> x]
ParenExpr(x) == [t |-> "ParenExpr", X |-> x]
SelectorExpr(x, sel) == [t |-> "SelectorExpr", X |-> x, Sel |-> sel]
CallExpr(fun, args) == [t |-> "CallExpr", Fun |-> fun, Args |-> args]
IndexExpr(x, index) == [t |-> "IndexExpr", X |-> x, Index |-> index]
BadExpr == [t |-> "error"]

\* `strings.Replace(value, "$", "__DOLLAR__", -1)` on the expression sources
\* of the model, those holding a `$` as a name or inside a string literal.
DollarToPlaceholder(value) ==
    CASE value = "$" -> "__DOLLAR__"
      [] value = "$x" -> "__DOLLAR__x"
      [] value = "\"$\"" -> "\"__DOLLAR__\""
      [] value = "\"$\" + V" -> "\"__DOLLAR__\" + V"
      [] value = "foo(\"$\")" -> "foo(\"__DOLLAR__\")"
      [] OTHER -> value

\* `strings.Replace(value, "__DOLLAR__", "$", -1)` on what visitExpression
\* returns: a reference, which holds the placeholder only when it is the
\* literal itself.
PlaceholderToDollar(value) ==
    CASE value = "\"__DOLLAR__\"" -> "\"$\""
      [] OTHER -> value

\* go/parser.ParseExpr on the expression sources of the model; BadExpr is a
\* syntax error.
ParseExpr(value) ==
    CASE value = "V" -> Ident("V")
      [] value = "W" -> Ident("W")
      [] value = "G1" -> Ident("G1")
      [] value = "G2" -> Ident("G2")
      [] value = "__DOLLAR__" -> Ident("__DOLLAR__")
      [] value = "__DOLLAR__x" -> Ident("__DOLLAR__x")
      [] value = "nil" -> Ident("nil")
      [] value = "1" -> BasicLit("1")
      [] value = "\"a\"" -> BasicLit("\"a\"")
      [] value = "\"__DOLLAR__\"" -> BasicLit("\"__DOLLAR__\"")
      [] value = "\"__DOLLAR__\" + V" ->
            BinaryExpr(BasicLit("\"__DOLLAR__\""), "+", Ident("V"))
      [] value = "foo(\"__DOLLAR__\")" ->
            CallExpr(Ident("foo"), <<BasicLit("\"__DOLLAR__\"")>>)
      [] value = "V + W" -> BinaryExpr(Ident("V"), "+", Ident("W"))
      [] value = "V + W * 2" ->
            BinaryExpr(Ident("V"), "+", BinaryExpr(Ident("W"), "*", BasicLit("2")))
      [] value = "A + B * C" ->
            BinaryExpr(Ident("A"), "+", BinaryExpr(Ident("B"), "*", Ident("C")))
      [] value = "C - A < B" ->
            BinaryExpr(BinaryExpr(Ident("C"), "-", Ident("A")), "<", Ident("B"))
      [] value = "V != W" -> BinaryExpr(Ident("V"), "!=", Ident("W"))
      [] value = "V | W" -> BinaryExpr(Ident("V"), "|", Ident("W"))
      [] value = "V ^ W" -> BinaryExpr(Ident("V"), "^", Ident("W"))
      [] value = "!V" -> UnaryExpr("!", Ident("V"))
      [] value = "(V)" -> ParenExpr(Ident("V"))
      [] value = "V.F" -> SelectorExpr(Ident("V"), "F")
      [] value = "len(V)" -> CallExpr(Ident("len"), <<Ident("V")>>)
      [] value = "V[1]" -> IndexExpr(Ident("V"), BasicLit("1"))
      [] OTHER -> BadExpr

\* The sources that start and end with a single quote, and what the
\* "dumb hack" of visitRawInterpolation turns them into.
SingleQuoted(value) == value = "'a'"
Requoted(value) == IF value = "'a'" THEN "\"a\"" ELSE value

\* The names of builtinFunctions, and those hasFunctionWithName finds in
\* Options.Funcs or in FuncMap.
builtinFunctions ==
    {"len", "print", "printf", "println", "urlquery", "js", "json", "index",
     "html", "unescaped"}
FuncNames == {"foo", "bar", "json", "unescaped"}
hasFunctionWithName(name) == name \in FuncNames

\* ------------------------------------------------- the traversal's state
\* buf: c.buffer; tv: c.tempvarIndex; mixins: c.mixins; indent: c.indentLevel;
\* pretty: Options.PrettyPrint; stk: the operand stack of visitExpression;
\* val: the string the last visit*Interpolation returned; pieces: the value
\* of the attribute or text under construction; cond: the transpiled guard of
\* the attribute; jade: the panic is a "Jade Error" string; panic: the value
\* of the panic in flight ("" when there is none).
write(st, value) ==
    IF st.panic # "" \/ value = "" THEN st ELSE [st EXCEPT !.buf = Append(@, value)]

RECURSIVE writeAll(_, _)
writeAll(st, values) ==
    IF values = <<>> THEN st ELSE writeAll(write(st, Head(values)), Tail(values))

raise(st, msg) == IF st.panic # "" THEN st ELSE [st EXCEPT !.panic = msg]

\* A faulty tempvar that does not count.
tempvarStuck(st) ==
    IF st.panic # "" THEN st ELSE [st EXCEPT !.val = "$__jade_" \o ToString(st.tv + 1)]

\* `c.tempvarIndex++; return "$__jade_" + strconv.Itoa(c.tempvarIndex)`
tempvar(st) ==
    IF st.panic # "" THEN st
    ELSE [st EXCEPT !.tv = @ + 1, !.val = "$__jade_" \o ToString(st.tv + 1)]

PushFront(st, value) == [st EXCEPT !.stk = <<value>> \o @]
\* pop of visitExpression: "" on an empty stack.
PopVal(st) == IF st.stk = <<>> THEN "" ELSE Head(st.stk)
PopRest(st) == IF st.stk = <<>> THEN st ELSE [st EXCEPT !.stk = Tail(@)]

BinaryOpName(op) ==
    CASE op = "+" -> "__jade_add "
      [] op = "-" -> "__jade_sub "
      [] op = "*" -> "__jade_mul "
      [] op = "/" -> "__jade_quo "
      [] op = "%" -> "__jade_rem "
      [] op = "&&" -> "and "
      [] op = "||" -> "or "
      [] op = "==" -> "__jade_eql "
      [] op = "!=" -> "__jade_eql "
      [] op = "<" -> "__jade_lss "
      [] op = ">" -> "__jade_gtr "
      [] op = "<=" -> "__jade_gtr "
      [] op = ">=" -> "__jade_lss "
      [] OTHER -> ""

Negated(op) == op \in {"!=", "<=", ">="}

UnaryOpName(op) ==
    CASE op = "-" -> "__jade_minus "
      [] op = "+" -> "__jade_plus "
      [] op = "!" -> "not "
      [] OTHER -> ""

PlaceholderIdent(name) == name \in {"__DOLLAR__", "__DOLLAR__x"}
AfterPlaceholder(name) == IF name = "__DOLLAR__x" THEN "x" ELSE ""

RECURSIVE exec(_, _)
RECURSIVE execArgs(_, _, _)
RECURSIVE writeArgs(_, _)

\* `for i := len(ce.Args) - 1; i >= 0; i-- { exec(ce.Args[i]) }`
execArgs(args, i, st) ==
    IF i < 1 \/ st.panic # "" THEN st ELSE execArgs(args, i - 1, exec(args[i], st))

\* `for i := 0; i < len(ce.Args); i++ { c.write(" "); c.write(pop()) }`
writeArgs(n, st) ==
    IF n = 0 THEN st
    ELSE writeArgs(n - 1, PopRest(write(write(st, " "), PopVal(st))))

\* BinaryExpr, `name = tempvar(); c.write("{{" + name + " := not " + ret + "}}")`
\* after a negated comparison; st is the state after tempvar.
binaryNegate(ref, st) ==
    PushFront(write(st, "{{" \o st.val \o " := not " \o ref \o "}}"), st.val)

\* BinaryExpr, from `ret := name` on; st is the state after the writes.
binaryResult(op, name, st) ==
    IF ~Negated(op) THEN PushFront(st, name) ELSE binaryNegate(name, tempvar(st))

\* A faulty BinaryExpr that writes the right operand before the left one.
binaryWriteSwapped(op, st) ==
    IF BinaryOpName(op) = ""
    THEN raise(write(st, "{{" \o st.val \o " := "),
               "Unexpected operator: '" \o op \o "'")
    ELSE binaryResult(op, st.val,
           PopRest(PopRest(
             write(write(write(st, "{{" \o st.val \o " := "), BinaryOpName(op)),
                   PopVal(PopRest(st)) \o " " \o PopVal(st) \o "}}"))))

\* BinaryExpr, from `name := tempvar()` on; st is the state after tempvar,
\* the operands on the stack with X on top.
binaryWrite(op, st) ==
    IF op = "|"
    THEN PushFront(
           write(PopRest(PopRest(st)),
                 "{{" \o st.val \o " := " \o PopVal(st) \o " | "
                   \o PopVal(PopRest(st)) \o "}}"),
           st.val)
    ELSE IF BinaryOpName(op) = ""
    THEN raise(write(st, "{{" \o st.val \o " := "),
               "Unexpected operator: '" \o op \o "'")
    ELSE binaryResult(op, st.val,
           PopRest(PopRest(
             write(write(write(st, "{{" \o st.val \o " := "), BinaryOpName(op)),
                   PopVal(st) \o " " \o PopVal(PopRest(st)) \o "}}"))))

\* UnaryExpr, from `name := tempvar()` on.
unaryWrite(op, st) ==
    IF UnaryOpName(op) = ""
    THEN raise(write(st, "{{" \o st.val \o " := "),
               "Unexpected operator: '" \o op \o "'")
    ELSE PushFront(
           PopRest(write(write(write(st, "{{" \o st.val \o " := "), UnaryOpName(op)),
                         PopVal(st) \o "}}")),
           st.val)

\* `x := pop(); if x == "." { x = "" }`
PopX(st) == IF PopVal(st) = "." THEN "" ELSE PopVal(st)

\* SelectorExpr, from `name := tempvar()` on; x was popped before it.
selectorWrite(x, sel, st) ==
    PushFront(write(st, "{{" \o st.val \o " := " \o x \o "." \o sel \o "}}"), st.val)

\* CallExpr, the writes of the arguments and of the closing braces, and
\* `stack.PushFront(name)`; st is the state after the write of the function.
callFinish(n, name, st) ==
    IF st.panic # "" THEN st ELSE PushFront(write(writeArgs(n, st), "}}"), name)

\* CallExpr on a method, `exec(se.X); x := pop(); c.write(...)`; st is the
\* state after exec(se.X).
callSelector(name, sel, st) ==
    write(PopRest(st), "{{" \o name \o " := " \o PopX(st) \o "." \o sel \o " ")

\* CallExpr on another function, `exec(ce.Fun); c.write(...)`; st is the
\* state after exec(ce.Fun).
callFun(name, st) == PopRest(write(st, "{{" \o name \o " := " \o PopVal(st)))

\* SelectorExpr, from `x := pop()` on; st is the state after exec(se.X).
selectorFrom(sel, st) == selectorWrite(PopX(st), sel, tempvar(PopRest(st)))

\* CallExpr, from the switch on ce.Fun on; st is the state after tempvar.
callFrom(expr, st) ==
    callFinish(Len(expr.Args), st.val,
      IF expr.Fun.t = "Ident" /\ expr.Fun.Name \in builtinFunctions
      THEN write(st, "{{" \o st.val \o " := " \o expr.Fun.Name)
      ELSE IF expr.Fun.t = "SelectorExpr"
      THEN callSelector(st.val, expr.Fun.Sel, exec(expr.Fun.X, st))
      ELSE callFun(st.val, exec(expr.Fun, st)))

\* The closure exec of visitExpression.
exec(expr, st) ==
    IF st.panic # "" THEN st
    ELSE CASE expr.t = "BinaryExpr" ->
            binaryWrite(expr.Op, tempvar(exec(expr.X, exec(expr.Y, st))))
          [] expr.t = "UnaryExpr" -> unaryWrite(expr.Op, tempvar(exec(expr.X, st)))
          [] expr.t = "ParenExpr" -> exec(expr.X, st)
          [] expr.t = "BasicLit" -> PushFront(st, expr.Value)
          [] expr.t = "Ident" ->
            IF PlaceholderIdent(expr.Name)
            THEN IF expr.Name = "__DOLLAR__"
                 THEN PushFront(st, ".")
                 ELSE PushFront(st, "$" \o AfterPlaceholder(expr.Name))
            ELSE IF expr.Name = "nil" \/ hasFunctionWithName(expr.Name)
                 THEN PushFront(st, expr.Name)
                 ELSE PushFront(st, "." \o expr.Name)
          [] expr.t = "SelectorExpr" -> selectorFrom(expr.Sel, exec(expr.X, st))
          [] expr.t = "CallExpr" ->
            callFrom(expr, tempvar(execArgs(expr.Args, Len(expr.Args), st)))
          [] OTHER ->
            raise(st, "Unable to parse expression. Unsupported: " \o expr.t)

\* visitExpression, `return pop()`; st is the state after exec.
visitExpressionResult(st) == [st EXCEPT !.val = PopVal(st), !.stk = <<>>]

\* visitExpression: a fresh stack, exec, and the value left on top.
visitExpression(expr, st) == visitExpressionResult(exec(expr, [st EXCEPT !.stk = <<>>]))

\* `strings.Replace(c.visitExpression(expr), "__DOLLAR__", "$", -1)`
Restored(st) == [st EXCEPT !.val = PlaceholderToDollar(st.val)]

\* visitRawInterpolation, from the second `if err != nil` on; v is the
\* source after the replacement of `$`, expr what ParseExpr made of it.
visitRawParsed(v, expr, st) ==
    IF expr.t = "error"
    THEN raise(st, "Unable to parse expression: " \o v)
    ELSE Restored(visitExpression(expr, st))

\* visitRawInterpolation, from the first `if err != nil` on. An empty source
\* fails to parse and then panics at `bValue[0]`.
visitRawReplaced(v, st) ==
    IF ParseExpr(v).t = "error" /\ v = ""
    THEN raise(st, "runtime error: index out of range")
    ELSE IF ParseExpr(v).t = "error" /\ SingleQuoted(v)
    THEN visitRawParsed(v, ParseExpr(Requoted(v)), st)
    ELSE visitRawParsed(v, ParseExpr(v), st)

\* visitRawInterpolation: the reference of the expression in st.val, the
\* instructions it needs written to the buffer.
visitRawInterpolation(value, st) ==
    IF st.panic # "" THEN st ELSE visitRawReplaced(DollarToPlaceholder(value), st)

Braced(st) == [st EXCEPT !.val = "{{" \o st.val \o "}}"]
BracedSafeJS(st) == [st EXCEPT !.val = "{{ safeJS " \o st.val \o "}}"]

\* visitInterpolation, visitJSInterpolation
visitInterpolation(value, st) == Braced(visitRawInterpolation(value, st))
visitJSInterpolation(value, st) == BracedSafeJS(visitRawInterpolation(value, st))

\* ------------------------------------------------------------ parser nodes
NilBlock == [t |-> "nil"]
Block(children) == [t |-> "Block", Children |-> children]
Attribute(name, value, isRaw, condition) ==
    [Name |-> name, Value |-> value, IsRaw |-> isRaw, Condition |-> condition]
Tag(name, attributes, block) ==
    [t |-> "Tag", Name |-> name, Attributes |-> attributes, Block |-> block]
\* Tag.IsSelfClosing: the name is one of the void elements.
IsSelfClosing(tag) == tag.Name \in {"br", "hr", "img", "input", "link", "meta"}
\* The value of a Text, cut where the regular expressions and the line split
\* of visitText cut it: k = "lit" (plain text), "interp" (`#{s}`), "braces"
\* (`{{s}}`) or "nl" (a line break).
Piece(k, str) == [k |-> k, s |-> str]
Text(pieces, raw) == [t |-> "Text", Value |-> pieces, Raw |-> raw]
Condition(expression, positive, negative) ==
    [t |-> "Condition", Expression |-> expression, Positive |-> positive,
     Negative |-> negative]
Each(expression, x, y, block) ==
    [t |-> "Each", Expression |-> expression, X |-> x, Y |-> y, Block |-> block]
Buffered(expression, escaped) ==
    [t |-> "Buffered", Expression |-> expression, Escaped |-> escaped]
Assignment(x, expression) == [t |-> "Assignment", X |-> x, Expression |-> expression]
Mixin(name, args, block) == [t |-> "Mixin", Name |-> name, Args |-> args, Block |-> block]
MixinCall(name, args) == [t |-> "MixinCall", Name |-> name, Args |-> args]
NilNode == [t |-> "nil"]

MixinNames == {"m"}
NoMixins == [n \in MixinNames |-> NilNode]

\* Block.CanInline: a block of nothing but non-raw Text (or of nothing).
CanInline(block) ==
    \A i \in DOMAIN block.Children :
        block.Children[i].t = "Text" /\ ~block.Children[i].Raw

NilDereference == "runtime error: invalid memory address or nil pointer dereference"

RECURSIVE writeTabs(_, _)
writeTabs(st, n) == IF n <= 0 THEN st ELSE writeTabs(write(st, "\t"), n - 1)

\* Compiler.indent
indent(st, offset, newline) ==
    IF ~st.pretty THEN st
    ELSE writeTabs(IF newline /\ st.buf # <<>> THEN write(st, "\n") ELSE st,
                   st.indent + offset)

\* ------------------------------------------------------------- attributes
\* Every string sort.Strings is given, in ascending order.
AttrNameOrder == <<"class", "id", "onclick">>
AttrNames == {AttrNameOrder[i] : i \in DOMAIN AttrNameOrder}
\* `strings.Index(attr.name, "on") == 0`
HasOnPrefix(name) == name = "onclick"

NoAttribs == [n \in AttrNames |-> [present |-> FALSE, value |-> <<>>, condition |-> ""]]

\* A faulty collection of the names: in descending order.
SortStringsDescending(names) ==
    LET asc == SelectSeq(AttrNameOrder, LAMBDA n : n \in names) IN
    [i \in DOMAIN asc |-> asc[Len(asc) + 1 - i]]

\* `for k := range attribs { attrNames = append(attrNames, k) }` and
\* `sort.Strings(attrNames)`: the keys of the map in ascending order.
SortStrings(names) == SelectSeq(AttrNameOrder, LAMBDA n : n \in names)

IfOpen(condition) == "{{if " \o condition \o "}}"
IfEnd == "{{end}}"

\* A faulty merge of a repeated class: the later declaration overwrites.
ClassMergeOverwrite(prevclass, attr) == attr

\* visitTag on a class attribute when attribs["class"] is set: the entry of
\* the map after the declaration attr was merged into prevclass.
ClassMerge(prevclass, attr) ==
    LET v1 == <<" ">> \o attr.value
        v2 == IF attr.condition # ""
              THEN <<IfOpen(attr.condition)>> \o v1 \o <<IfEnd>>
              ELSE v1
        pv == IF prevclass.condition # ""
              THEN <<IfOpen(prevclass.condition)>> \o prevclass.value \o <<IfEnd>>
              ELSE prevclass.value
    IN  [present |-> TRUE, value |-> pv \o v2, condition |-> ""]

AsPieces(st) == [st EXCEPT !.pieces = <<st.val>>]

\* visitTag, the value of one attribute: its pieces in st.pieces.
attrValue(item, st) ==
    IF ~item.IsRaw
    THEN AsPieces(IF HasOnPrefix(item.Name)
                  THEN visitJSInterpolation(item.Value, st)
                  ELSE visitInterpolation(item.Value, st))
    ELSE [st EXCEPT !.pieces = IF item.Value = "" THEN <<>> ELSE <<item.Value>>]

AsCondition(st) == [st EXCEPT !.cond = st.val]

\* visitTag, the guard of one attribute, transpiled into st.cond; st is the
\* state after the value was made.
attrCondition(item, st) ==
    IF item.Condition # ""
    THEN AsCondition(visitRawInterpolation(item.Condition, st))
    ELSE [st EXCEPT !.cond = ""]

\* visitTag, `if attr.name == "class" && attribs["class"] != nil { ... }
\* else { attribs[item.Name] = attr }`
Declared(item, attribs, attr) ==
    IF item.Name = "class" /\ attribs["class"].present
    THEN [attribs EXCEPT !["class"] = ClassMerge(@, attr)]
    ELSE [attribs EXCEPT ![item.Name] = attr]

\* The first loop of visitTag: <<the traversal's state, the attribs map>>.
RECURSIVE CollectAttribs(_, _, _, _)

\* One iteration of it; st is the state after value and guard were made.
collectOne(items, i, st, attribs) ==
    IF st.panic # "" THEN <<st, attribs>>
    ELSE CollectAttribs(items, i + 1, st,
            Declared(items[i], attribs,
                     [present |-> TRUE, value |-> st.pieces, condition |-> st.cond]))

CollectAttribs(items, i, st, attribs) ==
    IF i > Len(items) \/ st.panic # "" THEN <<st, attribs>>
    ELSE collectOne(items, i, attrCondition(items[i], attrValue(items[i], st)), attribs)

\* The pieces visitTag writes for one entry of the map.
AttribPieces(name, a) ==
    (IF a.condition # "" THEN <<IfOpen(a.condition)>> ELSE <<>>)
    \o (IF a.value = <<>>
        THEN <<" " \o name>>
        ELSE <<" " \o name \o "=\"">> \o a.value \o <<"\"">>)
    \o (IF a.condition # "" THEN <<IfEnd>> ELSE <<>>)

\* The second loop of visitTag, over the sorted names.
RECURSIVE WriteAttribs(_, _, _, _)
WriteAttribs(names, i, attribs, st) ==
    IF i > Len(names) THEN st
    ELSE WriteAttribs(names, i + 1, attribs,
                      writeAll(st, AttribPieces(names[i], attribs[names[i]])))

\* ---------------------------------------------------------------- visit
RECURSIVE visit(_, _)
RECURSIVE visitChildren(_, _, _, _)
RECURSIVE visitTextPieces(_, _, _, _)
RECURSIVE bindArgs(_, _, _, _)

\* visitBlock; a nil block is dereferenced.
visitBlock(block, st) ==
    IF st.panic # "" THEN st
    ELSE IF block.t = "nil" THEN raise(st, NilDereference)
    ELSE visitChildren(block.Children, 1, ~CanInline(block), st)

visitChildren(children, i, indentText, st) ==
    IF i > Len(children) \/ st.panic # "" THEN st
    ELSE visitChildren(children, i + 1, indentText,
            visit(children[i],
                  IF indentText /\ children[i].t = "Text"
                  THEN indent(st, 0, TRUE)
                  ELSE st))

\* visitText, one `#{...}` replaced; st is the state after visitInterpolation.
textInterpolated(pieces, i, st, acc) ==
    visitTextPieces(pieces, i + 1, st, Append(acc, st.val))

\* visitText, the two ReplaceAllStringFunc passes: the pieces of the value
\* after them, the instructions of the interpolations written on the way.
visitTextPieces(pieces, i, st, acc) ==
    IF i > Len(pieces) \/ st.panic # "" THEN [st EXCEPT !.pieces = acc]
    ELSE IF pieces[i].k = "interp"
    THEN textInterpolated(pieces, i, visitInterpolation(pieces[i].s, st), acc)
    ELSE IF pieces[i].k = "braces"
    THEN visitTextPieces(pieces, i + 1, st,
                         acc \o <<"{{\"{{\"}}", pieces[i].s, "{{\"}}\"}}">>)
    ELSE IF pieces[i].k = "nl"
    THEN visitTextPieces(pieces, i + 1, st, Append(acc, "\n"))
    ELSE visitTextPieces(pieces, i + 1, st, Append(acc, pieces[i].s))

\* visitText, the loop over the lines: a line break is followed by indent.
RECURSIVE writeLines(_, _, _)
writeLines(values, i, st) ==
    IF i > Len(values) THEN st
    ELSE writeLines(values, i + 1,
            IF values[i] = "\n"
            THEN indent(write(st, "\n"), 0, FALSE)
            ELSE write(st, values[i]))

\* visitText, from `lines := strings.Split(value, "\n")` on.
writeText(st) == writeLines(st.pieces, 1, st)

\* visitMixinCall, `c.write(fmt.Sprintf("{{%s := %s}}", arg, ...))`; st is
\* the state after visitRawInterpolation of the argument.
bindOne(param, st) == write(st, "{{" \o param \o " := " \o st.val \o "}}")

\* visitMixinCall, the loop over mixin.Args.
bindArgs(params, args, i, st) ==
    IF i > Len(params) \/ st.panic # "" THEN st
    ELSE IF i > Len(args) THEN raise(st, "runtime error: index out of range")
    ELSE bindArgs(params, args, i + 1,
                  bindOne(params[i], visitRawInterpolation(args[i], st)))

\* A faulty visitMixinCall that passes over a call of a mixin not in c.mixins.
visitMixinCallLenient(mixinCall, st) ==
    IF st.mixins[mixinCall.Name].t = "nil" THEN st
    ELSE visitBlock(st.mixins[mixinCall.Name].Block,
                    bindArgs(st.mixins[mixinCall.Name].Args, mixinCall.Args, 1, st))

\* visitMixinCall; a call of a mixin not in c.mixins dereferences nil.
visitMixinCall(mixinCall, st) ==
    IF st.mixins[mixinCall.Name].t = "nil" THEN raise(st, NilDereference)
    ELSE visitBlock(st.mixins[mixinCall.Name].Block,
                    bindArgs(st.mixins[mixinCall.Name].Args, mixinCall.Args, 1, st))

\* visitTag, `c.indentLevel--; c.indent(0, true)` after the block.
Outdented(st) ==
    IF st.panic # "" THEN st ELSE indent([st EXCEPT !.indent = @ - 1], 0, TRUE)

\* visitTag, `if tag.Block != nil { ... }`
visitTagBlock(tag, st) ==
    IF tag.Block.t = "nil" THEN st
    ELSE IF CanInline(tag.Block) THEN visitBlock(tag.Block, st)
    ELSE Outdented(visitBlock(tag.Block, [st EXCEPT !.indent = @ + 1]))

\* visitTag, from `if tag.IsSelfClosing()` on.
visitTagClose(tag, st) ==
    IF IsSelfClosing(tag) THEN write(st, " />")
    ELSE write(visitTagBlock(tag, write(st, ">")), "</" \o tag.Name \o ">")

\* visitTag, from `c.indent(0, true)` on; col is what the first loop left.
visitTagOpen(tag, col) ==
    IF col[1].panic # "" THEN col[1]
    ELSE visitTagClose(tag,
            WriteAttribs(SortStrings({n \in AttrNames : col[2][n].present}), 1, col[2],
                         write(indent(col[1], 0, TRUE), "<" \o tag.Name)))

visitTag(tag, st) == visitTagOpen(tag, CollectAttribs(tag.Attributes, 1, st, NoAttribs))

\* visitCondition, the writes; st is the state after visitRawInterpolation.
conditionOpen(st) == write(st, IfOpen(st.val))
conditionElse(condition, st) ==
    IF condition.Negative.t # "nil"
    THEN visitBlock(condition.Negative, write(st, "{{else}}"))
    ELSE st
visitCondition(condition, st) ==
    write(conditionElse(condition,
            visitBlock(condition.Positive,
                       conditionOpen(visitRawInterpolation(condition.Expression, st)))),
          IfEnd)

\* visitEach
eachOpen(each, st) ==
    IF each.Y = ""
    THEN write(st, "{{range " \o each.X \o " := " \o st.val \o "}}")
    ELSE write(st, "{{range " \o each.X \o ", " \o each.Y \o " := " \o st.val \o "}}")
visitEach(each, st) ==
    IF each.Block.t = "nil" THEN st
    ELSE write(visitBlock(each.Block,
                          eachOpen(each, visitRawInterpolation(each.Expression, st))),
               IfEnd)

\* visitBuffered
bufferedWrite(buff, st) ==
    IF buff.Escaped
    THEN write(st, "{{" \o st.val \o "}}")
    ELSE write(st, "{{unescaped " \o st.val \o "}}")
visitBuffered(buff, st) == bufferedWrite(buff, visitRawInterpolation(buff.Expression, st))

\* visitAssignment
assignmentWrite(assgn, st) == write(st, "{{" \o assgn.X \o " := " \o st.val \o "}}")
visitAssignment(assgn, st) ==
    assignmentWrite(assgn, visitRawInterpolation(assgn.Expression, st))

\* visitText
visitText(txt, st) == writeText(visitTextPieces(txt.Value, 1, st, <<>>))

\* visitMixin
visitMixin(mixin, st) == [st EXCEPT !.mixins[mixin.Name] = mixin]

\* The deferred recover of visit: a panic that is not yet a "Jade Error"
\* string becomes one and is raised again.
visitRecover(st) ==
    IF st.panic # "" /\ ~st.jade
    THEN [st EXCEPT !.panic = "Jade Error: " \o @, !.jade = TRUE]
    ELSE st

\* The switch of visit on the node's type; a nil node matches no case.
visitSwitch(node, st) ==
    CASE node.t = "Block" -> visitBlock(node, st)
      [] node.t = "Tag" -> visitTag(node, st)
      [] node.t = "Text" -> visitText(node, st)
      [] node.t = "Condition" -> visitCondition(node, st)
      [] node.t = "Each" -> visitEach(node, st)
      [] node.t = "Buffered" -> visitBuffered(node, st)
      [] node.t = "Assignment" -> visitAssignment(node, st)
      [] node.t = "Mixin" -> visitMixin(node, st)
      [] node.t = "MixinCall" -> visitMixinCall(node, st)
      [] OTHER -> st

visit(node, st) == IF st.panic # "" THEN st ELSE visitRecover(visitSwitch(node, st))

\* ------------------------------------------------- attributes in the parser
\* A token of the scanner that declares an attribute: tokId (`#v`),
\* tokClassName (`.v`) or tokAttribute (`[n=content]`, `[n=content] ? cond`).
AttrTok(kind, value, content, mode, condition) ==
    [Kind |-> kind, Value |-> value,
     Data |-> [Content |-> content, Mode |-> mode, Condition |-> condition]]

\* parseTagReal, the cases tokId, tokClassName and tokAttribute of its
\* `readmore` loop over the tokens of the tag's header.
RECURSIVE parseTagRealAttributes(_, _, _)
parseTagRealAttributes(toks, i, attributes) ==
    IF i > Len(toks) THEN [Attributes |-> attributes, panic |-> ""]
    ELSE LET tok == toks[i] IN
         IF tok.Data.Condition # ""
         THEN [Attributes |-> attributes,
               panic |-> "Conditional attributes must be placed in a block within a tag."]
         ELSE parseTagRealAttributes(toks, i + 1,
                Append(attributes,
                  CASE tok.Kind = "tokId" -> Attribute("id", tok.Value, TRUE, "")
                    [] tok.Kind = "tokClassName" -> Attribute("class", tok.Value, TRUE, "")
                    [] OTHER -> Attribute(tok.Value, tok.Data.Content,
                                          tok.Data.Mode = "raw", "")))

\* parseBlock under a Tag, the tokAttribute tokens of the block.
RECURSIVE parseBlockAttributes(_, _, _)
parseBlockAttributes(toks, i, attributes) ==
    IF i > Len(toks) THEN attributes
    ELSE parseBlockAttributes(toks, i + 1,
            Append(attributes,
                   Attribute(toks[i].Value, toks[i].Data.Content,
                             toks[i].Data.Mode = "raw", toks[i].Data.Condition)))

\* ---------------------------------------------------------------- inputs
\* Attribute declarations of a tag's header.
HeaderPool ==
    {AttrTok("tokClassName", "a", "", "", ""),
     AttrTok("tokId", "a", "", "", ""),
     AttrTok("tokAttribute", "onclick", "V", "expression", ""),
     AttrTok("tokAttribute", "id", "", "expression", ""),
     AttrTok("tokAttribute", "id", "", "raw", ""),
     AttrTok("tokAttribute", "id", "V + W", "expression", ""),
     AttrTok("tokClassName", "b", "", "", "G1")}

\* Attribute declarations of a tag's block.
BlockPool ==
    {AttrTok("tokAttribute", "class", "b", "raw", ""),
     AttrTok("tokAttribute", "class", "V", "expression", ""),
     AttrTok("tokAttribute", "class", "a", "raw", "G1"),
     AttrTok("tokAttribute", "class", "b", "raw", "G2"),
     AttrTok("tokAttribute", "id", "b", "raw", "G1")}

SeqsUpTo(S, n) == UNION {[1..k -> S] : k \in 0..n}

\* A template of one tag: the tokens of its header and of its block.
TagInputs ==
    UNION {{[k |-> "tag", header |-> h, block |-> b] :
              b \in SeqsUpTo(BlockPool, MaxAttrs - Len(h))} :
           h \in SeqsUpTo(HeaderPool, MaxAttrs)}

P(attributes, block) == Tag("p", attributes, block)
Lit(str) == Text(<<Piece("lit", str)>>, FALSE)

\* Templates of the other node types, given by the tree the parser returns.
TreeInputs ==
    {[k |-> "tree", node |-> n] : n \in
       {Block(<<Buffered("V + W", TRUE)>>),
        Block(<<Buffered("V != W", FALSE)>>),
        Block(<<P(<<>>, Block(<<P(<<Attribute("class", "a", TRUE, "")>>,
                                   Block(<<Buffered("V +", TRUE)>>))>>))>>),
        Block(<<P(<<>>, Block(<<Lit("t")>>)), Buffered("V +", TRUE)>>),
        Block(<<Condition("G1", Block(<<P(<<>>, NilBlock)>>), NilBlock)>>),
        Block(<<Condition("!V", Block(<<Lit("t")>>), Block(<<Lit("u")>>))>>),
        Block(<<Mixin("m", <<"$x">>, Block(<<Lit("t")>>)), MixinCall("m", <<"V.F">>)>>),
        Block(<<MixinCall("m", <<>>)>>),
        Block(<<Each("V", "$x", "", Block(<<Text(<<Piece("interp", "$x")>>, FALSE)>>))>>),
        Block(<<Each("V", "$x", "$y", NilBlock)>>),
        Block(<<Assignment("$x", "len(V)"),
                Text(<<Piece("lit", "t"), Piece("nl", ""), Piece("braces", "u"),
                       Piece("interp", "\"$\"")>>, TRUE)>>),
        Block(<<Tag("br", <<>>, NilBlock), Buffered("'a'", TRUE)>>),
        Block(<<Buffered("V ^ W", TRUE)>>),
        Block(<<Buffered("V[1]", TRUE)>>),
        Block(<<MixinCall("m", <<"V">>), Mixin("m", <<"$x">>, Block(<<Lit("t")>>))>>),
        Block(<<Mixin("m", <<"$x", "$y">>, Block(<<Lit("t")>>)),
                MixinCall("m", <<"V", "\"a\"">>)>>),
        Block(<<Mixin("m", <<>>, Block(<<Lit("t")>>)),
                MixinCall("m", <<>>), MixinCall("m", <<>>)>>),
        Block(<<Mixin("m", <<"$x", "$y">>, Block(<<Lit("t")>>)), MixinCall("m", <<"V">>)>>),
        Block(<<Mixin("m", <<"$x">>, Block(<<Lit("t")>>)), MixinCall("m", <<"V", "W">>)>>),
        Block(<<Text(<<Piece("lit", "a"), Piece("interp", "V")>>, TRUE)>>),
        Block(<<Text(<<Piece("lit", "a"), Piece("nl", ""), Piece("lit", "b")>>, TRUE)>>),
        Block(<<Text(<<Piece("braces", "u")>>, TRUE)>>),
        Block(<<Text(<<Piece("interp", "A + B * C")>>, FALSE)>>),
        Block(<<Text(<<Piece("interp", "C - A < B")>>, FALSE)>>),
        Block(<<Text(<<Piece("interp", "V + W * 2")>>, FALSE)>>),
        Block(<<Buffered("\"$\" + V", TRUE)>>),
        Block(<<Buffered("foo(\"$\")", TRUE)>>)}}

Inputs == TagInputs \cup TreeInputs \cup {[k |-> "unexpected"]}

\* Parser.Parse on a template of one tag; h is what parseTagReal made of
\* the header. The recover of Parse passes the panic on as a "Jade Error".
ParseTagInput(input, h) ==
    IF h.panic # ""
    THEN [node |-> NilNode, panic |-> "Jade Error: " \o h.panic]
    ELSE [node |-> Block(<<P(parseBlockAttributes(input.block, 1, h.Attributes),
                             IF input.block = <<>> THEN NilBlock ELSE Block(<<>>))>>),
          panic |-> ""]

\* Parser.Parse on the input: the tree, or the panic its recover passes on.
ParseInput(input) ==
    CASE input.k = "tag" ->
            ParseTagInput(input, parseTagRealAttributes(input.header, 1, <<>>))
      [] input.k = "tree" -> [node |-> input.node, panic |-> ""]
      [] OTHER -> [node |-> NilNode, panic |-> "Jade Error: Unexpected token"]

\* ------------------------------------------------- the parser on tokens
\* Parse of a parser made by StringParser (no file name, so no parent), as a
\* function of the tokens its scanner delivers. st is the parser and what the
\* call in progress carries: toks and i (the scanner and currenttoken), node
\* (the value the last parse function returned), tag (the Tag a parseBlock
\* was given as parent, with the attributes the block declared), panic, and
\* sets, the assignments to Positive and Negative made so far, each with the
\* index of the tokIf that made the Condition.
SimpleTok(kind, value) == AttrTok(kind, value, "", "", "")
AttributeListTok(children) ==
    [Kind |-> "tokAttributeList", Value |-> "",
     Data |-> [Content |-> "", Mode |-> "", Condition |-> ""], Children |-> children]

TokState(toks) ==
    [toks |-> toks, i |-> 1, node |-> NilNode, tag |-> NilNode, panic |-> "",
     sets |-> <<>>, spin |-> FALSE]

\* p.currenttoken
tokCur(st) == IF st.i <= Len(st.toks) THEN st.toks[st.i] ELSE SimpleTok("tokEOF", "")
\* p.advance()
tokAdvance(st) == [st EXCEPT !.i = @ + 1]
tokPanic(st, msg) == [st EXCEPT !.panic = msg]
tokReturn(st, node) == [st EXCEPT !.node = node]
\* `cnd.Positive = ...` / `cnd.Negative = ...` of the Condition made at id.
tokAssigned(st, id, field) == [st EXCEPT !.sets = Append(@, <<id, field>>)]

GuardInHeader == "Conditional attributes must be placed in a block within a tag."
GuardOutsideTag == "Conditional attributes must be placed immediately within a parent tag."

\* The Attribute a header or block declaration makes.
AttributeOf(tok, condition) ==
    CASE tok.Kind = "tokId" -> Attribute("id", tok.Value, TRUE, condition)
      [] tok.Kind = "tokClassName" -> Attribute("class", tok.Value, TRUE, condition)
      [] OTHER -> Attribute(tok.Value, tok.Data.Content, tok.Data.Mode = "raw", condition)

\* parseTagReal, case tokAttributeList: every entry appended with an empty
\* Condition.
RECURSIVE AttributeListOf(_, _, _)
AttributeListOf(children, i, attributes) ==
    IF i > Len(children) THEN attributes
    ELSE AttributeListOf(children, i + 1,
                         Append(attributes, AttributeOf(children[i], "")))

\* parseText, parseBuffered: the node.
TextOf(tok) == Text(<<Piece("lit", tok.Value)>>, tok.Data.Mode = "raw")
BufferedOf(tok) == Buffered(tok.Value, tok.Data.Mode = "escaped")

\* ensureBlock and `tag.Block.pushFront(...)`
TagPushFront(tag, node) ==
    [tag EXCEPT !.Block =
        Block(pushFront(IF tag.Block.t = "nil" THEN <<>> ELSE tag.Block.Children, node))]

RECURSIVE parse(_)
RECURSIVE parseBlockLoop(_, _, _)
RECURSIVE parseIfReadmore(_, _, _)
RECURSIVE parseTagReal(_, _)

\* parseBlock, `block.push(p.parse())`; r is the parser after parse().
parseBlockPush(parent, children, r) ==
    parseBlockLoop(parent, push(children, r.node), r)

\* parseBlock, the loop and the `p.expectOneOf(tokOutdent, tokEOF)` after it.
parseBlockLoop(parent, children, st) ==
    IF st.panic # "" THEN st
    ELSE IF tokCur(st).Kind \in {"tokEOF", "tokOutdent"}
    THEN [tokAdvance(st) EXCEPT !.node = Block(children), !.tag = parent]
    ELSE IF tokCur(st).Kind = "tokBlank"
    THEN parseBlockLoop(parent, children, tokAdvance(st))
    ELSE IF tokCur(st).Kind = "tokAttribute"
    THEN IF parent.t = "Tag"
         THEN parseBlockLoop(
                [parent EXCEPT !.Attributes =
                    Append(@, AttributeOf(tokCur(st), tokCur(st).Data.Condition))],
                children, tokAdvance(st))
         ELSE tokPanic(st, GuardOutsideTag)
    ELSE parseBlockPush(parent, children, parse(st))

\* parseBlock, called on tokIndent.
parseBlock(parent, st) == parseBlockLoop(parent, <<>>, tokAdvance(st))

\* parseIf, `cnd.Positive = p.parseBlock(cnd)`; r is the parser after it.
parseIfPositive(id, cnd, r) ==
    parseIfReadmore(id, [cnd EXCEPT !.Positive = r.node], tokAssigned(r, id, "Positive"))

\* parseIf, `cnd.Negative = p.parseBlock(cnd)`
parseIfNegative(id, cnd, r) ==
    parseIfReadmore(id, [cnd EXCEPT !.Negative = r.node], tokAssigned(r, id, "Negative"))

\* parseIf, `cnd.Negative = newBlock(); cnd.Negative.push(p.parseIf())`
parseIfNested(id, cnd, r) ==
    parseIfReadmore(id, [cnd EXCEPT !.Negative = Block(<<r.node>>)],
                    tokAssigned(r, id, "Negative"))

\* parseIf after `tok := p.expect(tokIf)`, and parseUnless after its expect.
parseIf(st) ==
    parseIfReadmore(st.i, Condition(tokCur(st).Value, NilBlock, NilBlock), tokAdvance(st))

\* parseIf, case tokElse after `p.expect(tokElse)`.
parseIfElse(id, cnd, st) ==
    IF tokCur(st).Kind = "tokIf" THEN parseIfNested(id, cnd, parseIf(st))
    ELSE IF tokCur(st).Kind = "tokIndent" THEN parseIfNegative(id, cnd, parseBlock(cnd, st))
    ELSE tokPanic(st, "Unexpected token: " \o tokCur(st).Kind)

\* parseIf, the `readmore` switch.
parseIfReadmore(id, cnd, st) ==
    IF st.panic # "" THEN st
    ELSE IF tokCur(st).Kind = "tokIndent" THEN parseIfPositive(id, cnd, parseBlock(cnd, st))
    ELSE IF tokCur(st).Kind = "tokElse" THEN parseIfElse(id, cnd, tokAdvance(st))
    ELSE tokReturn(st, cnd)

\* parseEach after its parseBlock, or with no block.
parseEachBlock(ech, r) ==
    IF r.panic # "" THEN r ELSE tokReturn(r, [ech EXCEPT !.Block = r.node])

\* parseTagReal, case tokIndent after `block := p.parseBlock(tag)`: the block
\* becomes the tag's, or its children follow those the tag has.
parseTagBlock(r) ==
    IF r.panic # "" THEN r
    ELSE tokReturn(r, [r.tag EXCEPT !.Block =
                          IF r.tag.Block.t = "nil" THEN r.node
                          ELSE Block(r.tag.Block.Children \o r.node.Children)])

\* parseTagReal, case tokSemicolon after the inner tag was parsed:
\* `block.push(innerTag)`, where block is the tag's only if the tag had none.
parseTagInline(tag, r) ==
    IF r.panic # "" THEN r
    ELSE tokReturn(r, IF tag.Block.t = "nil"
                      THEN [tag EXCEPT !.Block = Block(<<r.node>>)]
                      ELSE tag)

\* parseTagReal, case tokSemicolon after `p.advance()`.
parseTagSemicolon(tag, st) ==
    IF tokCur(st).Kind \in {"tokId", "tokClassName", "tokTag"}
    THEN parseTagInline(tag, parse(st))
    ELSE tokReturn(st, IF tag.Block.t = "nil" THEN [tag EXCEPT !.Block = Block(<<>>)]
                       ELSE tag)

\* parseTagReal, the cases tokId, tokClassName and tokAttribute after
\* `p.expect(...)`; tok is the token expected.
parseTagAttribute(tag, tok, st) ==
    IF tok.Data.Condition # "" THEN tokPanic(st, GuardInHeader)
    ELSE parseTagReal([tag EXCEPT !.Attributes = Append(@, AttributeOf(tok, ""))], st)

\* parseTagReal, the `readmore` switch.
parseTagReal(tag, st) ==
    IF st.panic # "" THEN st
    ELSE IF tokCur(st).Kind = "tokIndent" THEN parseTagBlock(parseBlock(tag, st))
    ELSE IF tokCur(st).Kind = "tokSemicolon" THEN parseTagSemicolon(tag, tokAdvance(st))
    ELSE IF tokCur(st).Kind \in {"tokId", "tokClassName", "tokAttribute"}
    THEN parseTagAttribute(tag, tokCur(st), tokAdvance(st))
    ELSE IF tokCur(st).Kind = "tokAttributeList"
    THEN parseTagReal([tag EXCEPT !.Attributes =
                          AttributeListOf(tokCur(st).Children, 1, @)], tokAdvance(st))
    ELSE IF tokCur(st).Kind = "tokText" /\ tokCur(st).Data.Mode # "piped"
    THEN parseTagReal(TagPushFront(tag, TextOf(tokCur(st))), tokAdvance(st))
    ELSE IF tokCur(st).Kind = "tokBuffered"
    THEN parseTagReal(TagPushFront(tag, BufferedOf(tokCur(st))), tokAdvance(st))
    ELSE tokReturn(st, tag)

\* parse(): the switch over the kind of the current token. The directives
\* that open files or declare named blocks are those of the parser above.
parse(st) ==
    IF st.panic # "" THEN st
    ELSE CASE tokCur(st).Kind = "tokText" -> tokReturn(tokAdvance(st), TextOf(tokCur(st)))
           [] tokCur(st).Kind = "tokBuffered" ->
                tokReturn(tokAdvance(st), BufferedOf(tokCur(st)))
           [] tokCur(st).Kind = "tokIf" -> parseIf(st)
           [] tokCur(st).Kind = "tokEach" ->
                IF tokCur(tokAdvance(st)).Kind = "tokIndent"
                THEN parseEachBlock(Each(tokCur(st).Value, "$x", "", NilBlock),
                                    parseBlock(NilNode, tokAdvance(st)))
                ELSE tokReturn(tokAdvance(st), Each(tokCur(st).Value, "$x", "", NilBlock))
           [] tokCur(st).Kind = "tokTag" ->
                parseTagReal(Tag(tokCur(st).Value, <<>>, NilBlock), tokAdvance(st))
           [] tokCur(st).Kind = "tokClassName" ->
                parseTagReal(Tag("div", <<AttributeOf(tokCur(st), "")>>, NilBlock),
                             tokAdvance(st))
           [] tokCur(st).Kind = "tokId" ->
                parseTagReal(Tag("div", <<AttributeOf(tokCur(st), "")>>, NilBlock),
                             tokAdvance(st))
           [] tokCur(st).Kind = "tokIndent" -> parseBlock(NilNode, st)
           [] tokCur(st).Kind = "tokNewLine" -> parse(tokAdvance(st))
           [] tokCur(st).Kind = "tokOutdent" -> tokReturn(st, Block(<<>>))
           [] OTHER -> tokPanic(st, "Unexpected token: " \o tokCur(st).Kind)

RECURSIVE ParseLoop(_, _)
\* Parse, `block.push(p.parse())`; r is the parser after parse().
ParsePush(children, r) == ParseLoop(push(children, r.node), r)

\* Parse, the loop. On tokOutdent parse() returns a new Block and does not
\* advance: the loop never ends.
ParseLoop(children, st) ==
    IF st.panic # "" THEN st
    ELSE IF tokCur(st).Kind = "tokEOF" THEN tokReturn(st, Block(children))
    ELSE IF tokCur(st).Kind = "tokBlank" THEN ParseLoop(children, tokAdvance(st))
    ELSE IF tokCur(st).Kind = "tokOutdent" THEN [st EXCEPT !.spin = TRUE]
    ELSE ParsePush(children, parse(st))

\* What Parse did, from the parser it left: the tree and `p.result`, or the
\* panic its recover passes on with the position of the current token.
ParseOutcome(st) ==
    IF st.spin THEN [k |-> "loop", node |-> NilNode, result |-> NilNode, msg |-> "",
                     at |-> st.i, sets |-> st.sets]
    ELSE IF st.panic # ""
    THEN [k |-> "panic", node |-> NilNode, result |-> NilNode,
          msg |-> "Jade Error: " \o st.panic, at |-> st.i, sets |-> st.sets]
    ELSE [k |-> "tree", node |-> st.node, result |-> st.node, msg |-> "", at |-> st.i,
          sets |-> st.sets]

\* Parser.Parse on a parser whose scanner delivers toks.
ParseTokens(toks) == ParseOutcome(ParseLoop(<<>>, TokState(toks)))

\* ------------------------------------------------------ token streams
tTag(name) == SimpleTok("tokTag", name)
tIndent == SimpleTok("tokIndent", "")
tOutdent == SimpleTok("tokOutdent", "")
tBlank == SimpleTok("tokBlank", "")
tSemicolon == SimpleTok("tokSemicolon", "")
tElse == SimpleTok("tokElse", "")
tIf(value) == SimpleTok("tokIf", value)
tText == AttrTok("tokText", "t", "", "", "")
tBuffered == AttrTok("tokBuffered", "V", "", "escaped", "")
tBody == <<tIndent, tTag("p"), tOutdent>>

\* What may stand on the header line of a tag, with and without a guard.
HeaderItems ==
    {SimpleTok("tokId", "a"), AttrTok("tokId", "a", "", "", "G1"),
     SimpleTok("tokClassName", "a"), AttrTok("tokClassName", "b", "", "", "G1"),
     AttrTok("tokAttribute", "id", "V", "expression", ""),
     AttrTok("tokAttribute", "id", "b", "raw", "G1"),
     AttributeListTok(<<AttrTok("tokAttribute", "id", "V", "expression", "")>>),
     AttributeListTok(<<AttrTok("tokAttribute", "id", "V", "expression", ""),
                        AttrTok("tokAttribute", "class", "b", "raw", "G1")>>),
     tText, tBuffered}

\* A tag with a header, then nothing, a block, or an inline tag.
HeaderStreams ==
    {<<f>> \o h \o t :
        f \in {tTag("div"), SimpleTok("tokClassName", "c"),
               AttrTok("tokClassName", "c", "", "", "G2")},
        h \in SeqsUpTo(HeaderItems, MaxHeader),
        t \in {<<>>, tBody, <<tSemicolon, tTag("p")>>}}

\* What may be declared on a line of its own inside a block.
BlockItems ==
    {SimpleTok("tokId", "a"), AttrTok("tokId", "a", "", "", "G1"),
     SimpleTok("tokClassName", "a"), AttrTok("tokClassName", "b", "", "", "G1"),
     AttrTok("tokAttribute", "class", "V", "expression", ""),
     AttrTok("tokAttribute", "class", "b", "raw", "G1")}

\* A declaration in the block of a tag, of a condition, of a loop, and in a
\* block of its own; and the template of Test_ClassName.
BlockStreams ==
    {k \o <<tIndent, x>> \o t \o <<tOutdent>> :
        k \in {<<tTag("p")>>, <<tTag("p"), SimpleTok("tokClassName", "c")>>,
               <<tIf("V")>>, <<SimpleTok("tokEach", "V")>>, <<>>},
        x \in BlockItems,
        t \in {<<>>, <<tTag("p")>>, <<AttrTok("tokAttribute", "id", "b", "raw", "G2")>>}}
    \cup {<<SimpleTok("tokClassName", "test"), tIndent, tTag("p"),
            SimpleTok("tokClassName", "test1"), SimpleTok("tokClassName", "test-2"),
            tIndent, AttrTok("tokAttribute", "class", "$", "expression", ""),
            SimpleTok("tokClassName", "test3"), tOutdent, tOutdent>>}

\* What may follow the body of an `if`: else with a block, else if with a
\* block, else with neither.
ElseParts ==
    {<<tElse>> \o tBody, <<tElse, tIf("W")>> \o tBody, <<tElse, tTag("p")>>}

RECURSIVE Concat(_)
Concat(parts) == IF parts = <<>> THEN <<>> ELSE Head(parts) \o Concat(Tail(parts))

IfStreams ==
    {<<tIf("V")>> \o tBody \o Concat(e) \o t :
        e \in SeqsUpTo(ElseParts, MaxElse), t \in {<<>>, <<tTag("p")>>}}
    \cup {<<tIf("V")>>, <<tIf("V"), tTag("p")>>, <<tIf("V")>> \o tBody \o tBody}

\* Inline tags: a first tag with or without same-line content, the
\* semicolon, and what follows it; and the template of Test_Nesting.
SemicolonStreams ==
    {f \o h \o <<tSemicolon>> \o n \o t :
        f \in {<<tTag("div")>>, <<SimpleTok("tokClassName", "a")>>, <<SimpleTok("tokId", "a")>>},
        h \in {<<>>, <<SimpleTok("tokClassName", "c")>>, <<tText>>, <<tBuffered>>},
        n \in {<<tTag("p")>>, <<SimpleTok("tokClassName", "b")>>, <<SimpleTok("tokId", "b")>>,
               <<tTag("p"), tSemicolon, tTag("i")>>, <<tTag("p")>> \o tBody,
               <<tTag("p"), tText>>, <<tText>>, <<>>},
        t \in {<<>>, <<tTag("b")>>}}
    \cup {<<tTag("html"), tIndent, tTag("head"), tIndent, tTag("title"), tOutdent,
            tTag("body"), tIndent, tTag("div"), tSemicolon, tTag("p"),
            SimpleTok("tokClassName", "anotherDiv"), tSemicolon, tTag("p"),
            tOutdent, tOutdent>>}

TokenStreams == HeaderStreams \cup BlockStreams \cup IfStreams \cup SemicolonStreams

\* toks with a tokBlank put after its first n tokens.
InsertBlank(toks, n) == SubSeq(toks, 1, n) \o <<tBlank>> \o SubSeq(toks, n + 1, Len(toks))

\* A template as the scanner delivers it: a stream of the catalogue, as it
\* is (blank = -1) or with one blank line somewhere.
Scanned(base, blank) ==
    [k |-> "stream", base |-> base, blank |-> blank,
     toks |-> IF blank < 0 THEN base ELSE InsertBlank(base, blank)]
NoStream == [k |-> "none", base |-> <<>>, blank |-> -1, toks |-> <<>>]
NotParsed == [k |-> "none"]

\* -------------------------------------------------- actions on tokens
TInit ==
    /\ scanned = NoStream
    /\ parsed = NotParsed

\* `parser.StringParser(input)`
StringParserAct ==
    /\ scanned.k = "none"
    /\ \E base \in TokenStreams : \E blank \in -1..Len(base) :
          scanned' = Scanned(base, blank)
    /\ parsed' = NotParsed
    /\ UNCHANGED <<pvars, cvars>>

\* `p.Parse()`
TokParseAct ==
    /\ scanned.k = "stream"
    /\ parsed.k = "none"
    /\ parsed' = ParseTokens(scanned.toks)
    /\ UNCHANGED <<pvars, cvars, scanned>>

TNext ==
    \/ StringParserAct
    \/ TokParseAct

\* -------------------------------------------------------------- Compiler
\* New
New ==
    [node |-> NilNode, filename |-> "", buf |-> <<>>, indent |-> 0, tv |-> 0,
     mixins |-> NoMixins, pretty |-> TRUE]

\* `c.buffer = new(bytes.Buffer); c.visit(c.node)`
Traversal(cc) ==
    visit(cc.node,
          [buf |-> <<>>, tv |-> cc.tv, mixins |-> cc.mixins, indent |-> cc.indent,
           pretty |-> cc.pretty, stk |-> <<>>, val |-> "", pieces |-> <<>>, cond |-> "",
           panic |-> "", jade |-> FALSE])

\* The Compiler after a traversal that left st, its buffer holding buf.
After(cc, st, buf) ==
    [cc EXCEPT !.buf = buf, !.tv = st.tv, !.mixins = st.mixins, !.indent = st.indent]

\* `if c.buffer.Len() > 0 { c.write("\n") }`
WithNewline(st) == IF st.buf # <<>> THEN write(st, "\n") ELSE st

\* `_, err = c.buffer.WriteTo(out)`, which drains the buffer.
WriteTo(cc, out, st) ==
    [c |-> After(cc, st, <<>>), out |-> out \o st.buf, err |-> "", raised |-> ""]

\* A faulty CompileWriter that hands the text generated before the panic
\* to the writer; st is the state the traversal left.
CompileWriterPartialFrom(cc, out, st) ==
    IF st.panic # ""
    THEN [c |-> After(cc, st, <<>>), out |-> out \o st.buf, err |-> st.panic,
          raised |-> st.panic]
    ELSE WriteTo(cc, out, WithNewline(st))
CompileWriterPartial(cc, out) == CompileWriterPartialFrom(cc, out, Traversal(cc))

\* CompileWriter after `c.visit(c.node)`; st is the state the traversal left.
\* The deferred recover turns a panic into the error returned.
CompileWriterFrom(cc, out, st) ==
    IF st.panic # ""
    THEN [c |-> After(cc, st, st.buf), out |-> out, err |-> st.panic,
          raised |-> st.panic]
    ELSE WriteTo(cc, out, WithNewline(st))

\* Compiler.CompileWriter: the Compiler after it, the writer's content, the
\* error returned, the panic recovered.
CompileWriter(cc, out) == CompileWriterFrom(cc, out, Traversal(cc))

\* CompileString after `c.CompileWriter(&buf)`, which returned r.
CompileStringFrom(r) ==
    [c |-> r.c, buf |-> r.out, str |-> IF r.err # "" THEN <<>> ELSE r.out,
     err |-> r.err, raised |-> r.raised]

\* Compiler.CompileString
CompileString(cc) == CompileStringFrom(CompileWriter(cc, <<>>))

\* CompileWithTemplate after `c.CompileString()`, which returned r;
\* parses: whether html/template accepts the generated text.
CompileWithTemplateFrom(r, parses) ==
    IF r.err # ""
    THEN [c |-> r.c, buf |-> r.buf, tpl |-> "nil", str |-> <<>>, err |-> r.err,
          raised |-> r.raised]
    ELSE IF ~parses
    THEN [c |-> r.c, buf |-> r.buf, tpl |-> "nil", str |-> <<>>,
          err |-> "template: parse error", raised |-> r.raised]
    ELSE [c |-> r.c, buf |-> r.buf, tpl |-> "template", str |-> r.str, err |-> "",
          raised |-> r.raised]

\* Compiler.Compile, through CompileWithName and CompileWithTemplate.
CompileWithTemplate(cc, parses) == CompileWithTemplateFrom(CompileString(cc), parses)

\* Compiler.Parse after `parser.Parse()`, which returned r or panicked.
CompilerParseFrom(cc, r) ==
    IF r.panic # ""
    THEN [c |-> cc, err |-> r.panic, raised |-> r.panic]
    ELSE [c |-> [cc EXCEPT !.node = r.node], err |-> "", raised |-> ""]

\* Compiler.Parse
CompilerParse(cc, input) == CompilerParseFrom(cc, ParseInput(input))

\* The package-level Compile after `comp.Parse(input)`, which returned r.
CompileFrom(r, parses) ==
    IF r.err # ""
    THEN [c |-> r.c, buf |-> <<>>, tpl |-> "nil", str |-> <<>>, err |-> r.err,
          raised |-> r.raised]
    ELSE CompileWithTemplate(r.c, parses)

\* The package-level Compile.
Compile(input, pretty, parses) ==
    CompileFrom(CompilerParse([New EXCEPT !.pretty = pretty], input), parses)

\* ------------------------------------------------------- compiler actions
Returned(op, str, tpl, err) == [op |-> op, str |-> str, tpl |-> tpl, err |-> err]
NoCall == Returned("none", <<>>, "nil", "")

CInit ==
    /\ c = New
    /\ res = NoCall
    /\ before = NoCall
    /\ w = <<>>
    /\ raised = ""
    /\ ops = 0

\* `compiler := New()`
NewAct ==
    /\ c' = New
    /\ res' = NoCall
    /\ before' = NoCall
    /\ w' = <<>>
    /\ raised' = ""
    /\ ops' = 0
    /\ UNCHANGED <<pvars, tvars>>

\* `compiler.Parse(input)`; res and before restart with it.
ParseAct ==
    /\ ops < MaxOps
    /\ \E input \in Inputs :
       \E r \in {CompilerParse(c, input)} :
          /\ c' = r.c
          /\ res' = Returned("Parse", <<>>, "nil", r.err)
          /\ raised' = r.raised
    /\ before' = NoCall
    /\ w' = <<>>
    /\ ops' = ops + 1
    /\ UNCHANGED <<pvars, tvars>>

\* `compiler.CompileString()`
CompileStringAct ==
    /\ ops < MaxOps
    /\ \E r \in {CompileString(c)} :
          /\ c' = r.c
          /\ res' = Returned("CompileString", r.str, "nil", r.err)
          /\ w' = r.buf
          /\ raised' = r.raised
    /\ before' = res
    /\ ops' = ops + 1
    /\ UNCHANGED <<pvars, tvars>>

\* `compiler.CompileWriter(out)` on an empty writer.
CompileWriterAct ==
    /\ ops < MaxOps
    /\ \E r \in {CompileWriter(c, <<>>)} :
          /\ c' = r.c
          /\ res' = Returned("CompileWriter", <<>>, "nil", r.err)
          /\ w' = r.out
          /\ raised' = r.raised
    /\ before' = res
    /\ ops' = ops + 1
    /\ UNCHANGED <<pvars, tvars>>

\* `compiler.Compile()`
CompileAct ==
    /\ ops < MaxOps
    /\ \E parses \in BOOLEAN :
       \E r \in {CompileWithTemplate(c, parses)} :
          /\ c' = r.c
          /\ res' = Returned("Compile", r.str, r.tpl, r.err)
          /\ w' = r.buf
          /\ raised' = r.raised
    /\ before' = res
    /\ ops' = ops + 1
    /\ UNCHANGED <<pvars, tvars>>

\* `Compile(input, options)`: a Compiler of its own, parsed and compiled.
\* What it returns depends on nothing but its arguments, so it is taken
\* from the state in which no call was made yet.
CompileEntry ==
    /\ ops = 0
    /\ \E input \in Inputs, pretty \in BOOLEAN, parses \in BOOLEAN :
       \E r \in {Compile(input, pretty, parses)} :
          /\ c' = r.c
          /\ res' = Returned("Compile", r.str, r.tpl, r.err)
          /\ w' = r.buf
          /\ raised' = r.raised
    /\ before' = NoCall
    /\ ops' = 2
    /\ UNCHANGED <<pvars, tvars>>

CNext ==
    \/ NewAct
    \/ ParseAct
    \/ CompileStringAct
    \/ CompileWriterAct
    \/ CompileAct
    \/ CompileEntry

\* ------------------------------------------------- the Compiler on files
\* The templates the Compiler parses from a string between its ParseFile
\* calls: one that parses, one that does not.
StringInputs ==
    {[k |-> "tree", node |-> Block(<<Lit("t")>>)], [k |-> "unexpected"]}

\* A faulty ParseFile that records the file name before it parses.
ParseFileFromEager(cc, filename, failed, node, msg) ==
    IF failed
    THEN [c |-> [cc EXCEPT !.filename = filename], err |-> msg, raised |-> msg]
    ELSE [c |-> [cc EXCEPT !.node = node, !.filename = filename], err |-> "",
          raised |-> ""]

\* Compiler.ParseFile after `parser.Parse()`, which returned node or
\* panicked with msg: `c.node = ...; c.filename = filename`, or the recover.
ParseFileFrom(cc, filename, failed, node, msg) ==
    IF failed
    THEN [c |-> cc, err |-> msg, raised |-> msg]
    ELSE [c |-> [cc EXCEPT !.node = node, !.filename = filename], err |-> "",
          raised |-> ""]

\* `compiler.ParseFile("m.jade")` up to its `parser.Parse()`: FileParserFs
\* made the root parser, and Parse is entered.
ParseFileCall ==
    /\ status = "idle"
    /\ ops < MaxOps
    /\ CallParse

\* `compiler.ParseFile("m.jade")` from the return of `parser.Parse()`, or
\* from its panic, on.
ParseFileReturn ==
    /\ status \in {"done", "error"}
    /\ stack = <<>>
    /\ \E r \in {ParseFileFrom(c, parsers[1].filename, status = "error",
                                BlockRef(ret), panicMsg)} :
          /\ c' = r.c
          /\ res' = Returned("ParseFile", <<>>, "nil", r.err)
          /\ raised' = r.raised
    /\ before' = NoCall
    /\ w' = <<>>
    /\ ops' = ops + 1
    /\ status' = "returned"
    /\ UNCHANGED <<fs, parsers, blocks, stack, retval, ret, calls, panicMsg, tvars>>

\* `compiler.ParseFile(filename)` of a file FileParserFs cannot open.
ParseFileMissing ==
    /\ status \in {"idle", "returned"}
    /\ ops < MaxOps
    /\ c' = c
    /\ res' = Returned("ParseFile", <<>>, "nil", "open: no such file")
    /\ raised' = ""
    /\ before' = NoCall
    /\ w' = <<>>
    /\ ops' = ops + 1
    /\ UNCHANGED <<pvars, tvars>>

\* `compiler.Parse(input)` while no ParseFile is in progress.
ParseStringAct ==
    /\ status \in {"idle", "returned"}
    /\ ops < MaxOps
    /\ \E input \in StringInputs :
       \E r \in {CompilerParse(c, input)} :
          /\ c' = r.c
          /\ res' = Returned("Parse", <<>>, "nil", r.err)
          /\ raised' = r.raised
    /\ before' = NoCall
    /\ w' = <<>>
    /\ ops' = ops + 1
    /\ UNCHANGED <<pvars, tvars>>

NextFile ==
    \/ ParseFileCall
    \/ ParseFileReturn
    \/ ParseFileMissing
    \/ ParseStringAct
    \/ ParseTag
    \/ ParseNamedBlock
    \/ ParseBlockEnd
    \/ NamedBlockReturn
    \/ ParseExtends
    \/ ExtendsReturn
    \/ ParseReturnOwn
    \/ CallParentParse
    \/ Merge
    \/ ParseImport
    \/ ImportReturn
    \/ ParseIndent
    \/ IndentReturn
    \/ ParseOutdent
    \/ ParseUnexpected
    \/ StackOverflow

\* --------------------------------------------------------- specifications
\* No parser has been created yet.
ParserIdle ==
    /\ fs = [f \in Files |-> <<>>]
    /\ parsers = <<>>
    /\ blocks = <<>>
    /\ stack = <<>>
    /\ retval = 0
    /\ status = "idle"
    /\ ret = 0
    /\ calls = 0
    /\ panicMsg = ""

Init == ParserInit /\ CInit /\ TInit
InitCompile == ParserIdle /\ CInit /\ TInit
InitTokens == ParserIdle /\ CInit /\ TInit

InitSyntax == SyntaxInit /\ CInit /\ TInit

\* The parser and its inheritance, on the files of the catalogue.
Spec == Init /\ [][Next]_vars

\* The parser on m.jade and the files it extends or imports.
SpecSyntax == InitSyntax /\ [][NextSyntax]_vars

\* The Compiler, on the inputs of the catalogue.
SpecCompile == InitCompile /\ [][CNext]_vars

\* The parser of a string, on the token streams of the catalogue.
SpecTokens == InitTokens /\ [][TNext]_vars

\* The Compiler parsing m.jade with ParseFile, and strings with Parse.
SpecFile == InitSyntax /\ [][NextFile]_vars

\* ------------------------------------------------------- inheritance claims
Range(seq) == {seq[i] : i \in DOMAIN seq}

\* The tags of the tree under block b.
RECURSIVE TreeTags(_, _)
TreeTags(bl, b) ==
    UNION {IF ch.kind = "tag" THEN {ch} ELSE TreeTags(bl, ch.id) :
            ch \in Range(bl[b].Children)}

\* A step in which Parse of parser Top.p runs its merge and returns.
MergeStep == Running /\ Top.fn = "Parse" /\ Top.pc = "merge"

\* C1: in the step in which a parser with a parent merges, every named block
\* X of the parent's table ends with: its children unchanged when the child
\* does not declare X; the parent's children followed by the child's when the
\* child declares X with append; the child's followed by the parent's with
\* prepend; exactly the child's with the default modifier.
C1_MergeOneBlock ==
    [][MergeStep =>
        LET child == parsers[Top.p]
            parent == parsers[child.parent]
        IN  \A n \in BlockNames :
                parent.namedBlocks[n] # 0 =>
                    LET b == parent.namedBlocks[n]
                        o == child.namedBlocks[n]
                        prev == blocks[b].Children
                    IN  blocks'[b].Children =
                            IF o = 0 THEN prev
                            ELSE IF blocks[o].Modifier = "append"
                                 THEN prev \o blocks[o].Children
                            ELSE IF blocks[o].Modifier = "prepend"
                                 THEN blocks[o].Children \o prev
                            ELSE blocks[o].Children]_pvars

\* A merged parser whose prepend block of two tags went in front of the two
\* tags of its parent's block.
C1_Witness ==
    \E p \in DOMAIN parsers :
        /\ parsers[p].result # 0
        /\ parsers[p].parent # 0
        /\ parsers[p].namedBlocks["X"] # 0
        /\ parsers[parsers[p].parent].namedBlocks["X"] # 0
        /\ LET o == blocks[parsers[p].namedBlocks["X"]]
               b == blocks[parsers[parsers[p].parent].namedBlocks["X"]]
           IN  /\ o.Modifier = "prepend"
               /\ Len(o.Children) = 2
               /\ Len(b.Children) = 4
               /\ b.Children[1] = o.Children[1]

\* The children a file declares for its block n: the tags of the body that
\* follows the NamedBlock token in its token stream.
OwnChildren(p, n) ==
    LET toks == parsers[p].toks
        j == CHOOSE j \in DOMAIN toks :
                toks[j].Kind = "tokNamedBlock" /\ toks[j].Value = n
    IN  IF j < Len(toks) /\ toks[j + 1].Kind = "tokIndent"
        THEN LET o == CHOOSE o \in (j + 2)..Len(toks) :
                        /\ toks[o].Kind = "tokOutdent"
                        /\ \A k \in (j + 2)..(o - 1) : toks[k].Kind # "tokOutdent"
             IN  [i \in 1..(o - j - 2) |-> TagNode(p, j + 1 + i, n)]
        ELSE <<>>

\* The merge of the specification: modifier m applied to the children prev.
Applied(m, prev, ours) ==
    IF m = "append" THEN prev \o ours
    ELSE IF m = "prepend" THEN ours \o prev
    ELSE ours

\* Parser 1 extends parser 2, which extends parser 3, and all three declare
\* block n, the base one in place (default modifier).
Chain(n) ==
    /\ status = "done"
    /\ Len(parsers) = 3
    /\ parsers[1].parent = 2
    /\ parsers[2].parent = 3
    /\ \A p \in 1..3 : parsers[p].namedBlocks[n] # 0
    /\ blocks[parsers[3].namedBlocks[n]].Modifier = "default"

\* C2: in a chain A extends B extends C where all three declare block X, the
\* tree returned by Parse of A shows as X's children the result of applying
\* B's modifier to C's children and then A's modifier to that result.
C2_ChainedExtends ==
    \A n \in BlockNames :
        Chain(n) =>
            /\ ret = parsers[3].result
            /\ BlockRef(parsers[3].namedBlocks[n]) \in Range(blocks[ret].Children)
            /\ blocks[parsers[3].namedBlocks[n]].Children =
                    Applied(blocks[parsers[1].namedBlocks[n]].Modifier,
                            Applied(blocks[parsers[2].namedBlocks[n]].Modifier,
                                    OwnChildren(3, n), OwnChildren(2, n)),
                            OwnChildren(1, n))

\* C3: when a file has an extends directive, the tree its Parse returns is
\* the parent parser's merged root, and no tag of the file that lies outside
\* a named block declared by the parent is in that tree.
C3_ParentRootReturned ==
    \A p \in DOMAIN parsers :
        (parsers[p].result # 0 /\ parsers[p].parent # 0) =>
            /\ parsers[p].result = parsers[parsers[p].parent].result
            /\ (p = 1 /\ status = "done") => ret = parsers[parsers[p].parent].result
            /\ \A t \in TreeTags(blocks, parsers[p].result) :
                    t.p = p =>
                        /\ t.nb # ""
                        /\ parsers[parsers[p].parent].namedBlocks[t.nb] # 0

\* The root file extends a parent, its Parse has returned, and one of its
\* own tags (from a block the parent declares) is in the returned tree.
C3_Witness ==
    /\ status = "done"
    /\ parsers[1].parent # 0
    /\ \E t \in TreeTags(blocks, ret) : t.p = 1

NoDuplicateChildren(bl) ==
    \A b \in DOMAIN bl :
        \A i, j \in DOMAIN bl[b].Children :
            (bl[b].Children[i] = bl[b].Children[j]) => i = j

\* C4: once Parse of a parser has succeeded, a further Parse call on it (by
\* the caller, or by the merge step of its child) returns the cached tree,
\* consumes no token and merges nothing; the result of a parser never
\* changes, and no block ever holds a child twice.
C4_ParseIdempotent ==
    [][/\ (calls' = calls + 1 /\ parsers[1].result # 0) =>
            /\ ret' = parsers[1].result
            /\ parsers' = parsers
            /\ blocks' = blocks
            /\ stack' = <<>>
       /\ (/\ Running /\ Top.fn = "Parse" /\ Top.pc = "loop"
           /\ Cur.Kind = "tokEOF"
           /\ parsers[Top.p].parent # 0
           /\ parsers[parsers[Top.p].parent].result # 0) =>
            /\ retval' = parsers[parsers[Top.p].parent].result
            /\ parsers' = parsers
            /\ blocks' = blocks
            /\ Len(stack') = Len(stack)
       /\ \A p \in DOMAIN parsers :
            parsers[p].result # 0 => parsers'[p].result = parsers[p].result
       /\ NoDuplicateChildren(blocks')]_pvars

\* The caller's second Parse call has returned the tree of a file whose
\* append block was merged into its parent's block.
C4_Witness ==
    /\ calls = 2
    /\ status = "done"
    /\ parsers[1].parent # 0
    /\ parsers[1].namedBlocks["X"] # 0
    /\ parsers[parsers[1].parent].namedBlocks["X"] # 0
    /\ blocks[parsers[1].namedBlocks["X"]].Modifier = "append"
    /\ Len(blocks[parsers[1].namedBlocks["X"]].Children) = 2
    /\ Len(blocks[parsers[parsers[1].parent].namedBlocks["X"]].Children) = 4

\* ---------------------------------------------------------- compiler claims
CompileStringOp == "CompileString"

\* The last call was a CompileString that succeeded; c.node is what it compiled.
Compiled == res.op = CompileStringOp /\ res.err = ""

\* The template is one tag.
SingleTag ==
    /\ c.node.t = "Block"
    /\ Len(c.node.Children) = 1
    /\ c.node.Children[1].t = "Tag"
TheTag == c.node.Children[1]

\* The declarations of the attribute name on the tag, in declaration order.
Decls(name) == SelectSeq(TheTag.Attributes, LAMBDA a : a.Name = name)
Guarded(decls) == \A i \in DOMAIN decls : decls[i].Condition # ""
Unguarded(decls) == \A i \in DOMAIN decls : decls[i].Condition = ""

\* The pieces of the opening element of the first tag of the text out: those
\* after "<p" and before the ">" that closes it.
Least(S) == CHOOSE i \in S : \A j \in S : i <= j
OpenAt(out) == Least({i \in DOMAIN out : out[i] = "<p"})
CloseAt(out) == Least({i \in DOMAIN out : i > OpenAt(out) /\ out[i] = ">"})
OpeningElement(out) == SubSeq(out, OpenAt(out) + 1, CloseAt(out) - 1)

\* The piece starts an attribute of that name, bare or with a value.
IsAttr(piece, name) == piece = " " \o name \/ piece = " " \o name \o "=\""
AttrAt(pieces, name) == {i \in DOMAIN pieces : IsAttr(pieces[i], name)}

\* The text of the attribute that starts at piece i: up to its closing quote.
AttrText(pieces, i) ==
    IF pieces[i] = " class" THEN pieces[i]
    ELSE Flatten(SubSeq(pieces, i,
                        Least({j \in DOMAIN pieces : j > i /\ pieces[j] = "\""})))

\* C5: two successive CompileString calls on one Compiler return the same
\* string.
C5_CompileTwiceSame ==
    (res.op = CompileStringOp /\ before.op = CompileStringOp) => res.str = before.str

\* C6: whenever an error is raised during parsing or code generation, the
\* call returns an error, CompileString returns the empty string, Compile
\* returns no template, and nothing is written to the caller's writer.
C6_NoPartialOutput ==
    raised # "" =>
       /\ res.err # ""
       /\ res.str = <<>>
       /\ res.tpl = "nil"
       /\ w = <<>>

\* CompileWriter failed below a nested tag, after text had been generated.
C6_Witness ==
    /\ raised # ""
    /\ res.op = "CompileWriter"
    /\ c.buf # <<>>
    /\ c.indent >= 2

\* What html/template renders of the pieces when exactly the guards in env
\* are truthy: the pieces outside every `{{if}}` whose guard is false.
GuardRefs == {".G1", ".G2"}
IsIf(piece) == \E g \in GuardRefs : piece = "{{if " \o g \o "}}"
Truthy(piece, env) == \E g \in env : piece = "{{if " \o g \o "}}"
RECURSIVE Render(_, _, _, _)
Render(pieces, i, env, open) ==
    IF i > Len(pieces) THEN <<>>
    ELSE IF IsIf(pieces[i])
    THEN Render(pieces, i + 1, env,
                Append(open, Truthy(pieces[i], env)))
    ELSE IF pieces[i] = "{{end}}"
    THEN Render(pieces, i + 1, env, SubSeq(open, 1, Len(open) - 1))
    ELSE (IF \A k \in DOMAIN open : open[k] THEN <<pieces[i]>> ELSE <<>>)
         \o Render(pieces, i + 1, env, open)

GuardRef(decl) == "." \o decl.Condition

\* C7: for every attribute name all of whose declarations on the tag carry
\* guards, when all those guards are false the rendered tag holds no
\* attribute of that name.
C7_GuardedAbsent ==
    (Compiled /\ SingleTag) =>
       \A name \in {"class", "id", "onclick"} :
          (Decls(name) # <<>> /\ Guarded(Decls(name))) =>
             \A env \in SUBSET GuardRefs :
                (\A i \in DOMAIN Decls(name) : GuardRef(Decls(name)[i]) \notin env) =>
                   AttrAt(Render(OpeningElement(res.str), 1, env, <<>>), name) = {}

\* The value a declaration contributes: its text, or the interpolation of
\* its expression (an identifier).
Contribution(decl) ==
    IF decl.IsRaw THEN decl.Value ELSE "{{." \o decl.Value \o "}}"
RECURSIVE JoinSpace(_)
JoinSpace(decls) ==
    IF Len(decls) = 1 THEN Contribution(decls[1])
    ELSE JoinSpace(SubSeq(decls, 1, Len(decls) - 1)) \o " "
           \o Contribution(decls[Len(decls)])

\* C8: for a tag with k >= 1 unguarded class declarations, exactly one class
\* attribute is emitted and its value is the declared values joined by
\* single spaces in declaration order.
C8_ClassConcatenates ==
    (Compiled /\ SingleTag /\ Decls("class") # <<>> /\ Unguarded(Decls("class"))) =>
       /\ Cardinality(AttrAt(OpeningElement(res.str), "class")) = 1
       /\ \A i \in AttrAt(OpeningElement(res.str), "class") :
             AttrText(OpeningElement(res.str), i)
                = " class=\"" \o JoinSpace(Decls("class")) \o "\""

\* A class of the header and a class of the block came out as one attribute.
C8_Witness ==
    /\ Compiled
    /\ SingleTag
    /\ Len(Decls("class")) = 2
    /\ Decls("class")[1].Value = "a"
    /\ Decls("class")[2].Value = "b"
    /\ Unguarded(Decls("class"))
    /\ \E i \in AttrAt(OpeningElement(res.str), "class") :
          AttrText(OpeningElement(res.str), i) = " class=\"a b\""

\* The attribute names of the model in lexicographic order.
Rank(name) == CASE name = "class" -> 1 [] name = "id" -> 2 [] name = "onclick" -> 3
NameAt(pieces, i) == CHOOSE n \in {"class", "id", "onclick"} : IsAttr(pieces[i], n)
Starts(pieces) == {i \in DOMAIN pieces : \E n \in {"class", "id", "onclick"} : IsAttr(pieces[i], n)}

\* C9: in the opening element every declared attribute name is emitted
\* exactly once, and the names are in ascending lexicographic order.
C9_AttributesSortedOnce ==
    (Compiled /\ SingleTag) =>
       /\ \A i, j \in Starts(OpeningElement(res.str)) :
             i < j => Rank(NameAt(OpeningElement(res.str), i))
                        < Rank(NameAt(OpeningElement(res.str), j))
       /\ {NameAt(OpeningElement(res.str), i) : i \in Starts(OpeningElement(res.str))}
             = {TheTag.Attributes[k].Name : k \in DOMAIN TheTag.Attributes}

\* A tag that declares onclick before id was compiled, id coming out first;
\* or one that declares id twice.
C9_Witness ==
    /\ Compiled
    /\ SingleTag
    /\ Len(TheTag.Attributes) = 2
    /\ TheTag.Attributes[1].Name = "onclick"
    /\ TheTag.Attributes[2].Name = "id"
    /\ Cardinality(Starts(OpeningElement(res.str))) = 2

\* The tag declares an attribute with an empty value that is not raw, and
\* no later declaration of the same name.
EmptyNonRaw(k) ==
    /\ TheTag.Attributes[k].Value = ""
    /\ ~TheTag.Attributes[k].IsRaw
    /\ TheTag.Attributes[k].Condition = ""
    /\ \A m \in DOMAIN TheTag.Attributes :
          m > k => TheTag.Attributes[m].Name # TheTag.Attributes[k].Name

\* C10: a tag with an attribute whose value is empty and not raw compiles,
\* and the attribute is emitted bare.
C10_EmptyNonRawBare ==
    (res.op = CompileStringOp /\ SingleTag) =>
       \A k \in DOMAIN TheTag.Attributes :
          EmptyNonRaw(k) =>
             /\ res.err = ""
             /\ \E i \in DOMAIN res.str : res.str[i] = " " \o TheTag.Attributes[k].Name

\* ------------------------------------------------------ parse error claims
\* The positions before the current token of parser p that hold a token of
\* the kind.
Processed(p, kind) ==
    {j \in 1..(parsers[p].pos - 1) : parsers[p].toks[j].Kind = kind}

\* The loop of parser Top.p stands on an Extends token, and the file held
\* another one before it.
AtSecondExtends == InLoop /\ Cur.Kind = "tokExtends" /\ Processed(Top.p, "tokExtends") # {}

\* C11: when the loop of a parser reaches an Extends token after an earlier
\* Extends token of the same file, whatever lies between the two, the Parse
\* call ends in a panic: every frame is unwound, no parser on the stack gets a
\* result, and the caller is handed no tree.
C11_SecondExtendsFatal ==
    [][AtSecondExtends =>
          /\ status' = "error"
          /\ stack' = <<>>
          /\ panicMsg' = "Unable to extend multiple parent templates."
          /\ ret' = 0
          /\ \A i \in DOMAIN stack : parsers'[stack[i].p].result = 0]_vars

\* The Parse of m.jade failed on its second extends, which came after a tag
\* or a named block that followed the first.
C11_Witness ==
    /\ status = "error"
    /\ panicMsg = "Unable to extend multiple parent templates."
    /\ parsers[1].pos > 2
    /\ parsers[1].parent # 0
    /\ ret = 0

\* The names two NamedBlock tokens of the stream share.
Redeclared(toks) ==
    {toks[i].Value : i \in {i \in DOMAIN toks :
        /\ toks[i].Kind = "tokNamedBlock"
        /\ \E j \in DOMAIN toks :
              j < i /\ toks[j].Kind = "tokNamedBlock" /\ toks[j].Value = toks[i].Value}}

\* The NamedBlock of parser p that was declared first under the name.
FirstDeclared(p, name) ==
    CHOOSE b \in DOMAIN blocks :
        /\ blocks[b].owner = p /\ blocks[b].Name = name
        /\ \A d \in DOMAIN blocks :
              (blocks[d].owner = p /\ blocks[d].Name = name) => b <= d

\* C12: no Parse succeeds on a file in which two NamedBlock tokens carry the
\* same name, and the table of a parser maps a name to nothing but the block
\* declared first under it.
C12_NamedBlocksUnique ==
    \A p \in DOMAIN parsers :
        /\ parsers[p].result # 0 => Redeclared(parsers[p].toks) = {}
        /\ \A n \in BlockNames :
              parsers[p].namedBlocks[n] # 0 =>
                  parsers[p].namedBlocks[n] = FirstDeclared(p, n)

\* Indents less Outdents among the first i tokens.
RECURSIVE Depth(_, _)
Depth(toks, i) ==
    IF i = 0 THEN 0
    ELSE Depth(toks, i - 1)
           + (IF toks[i].Kind = "tokIndent" THEN 1
              ELSE IF toks[i].Kind = "tokOutdent" THEN -1 ELSE 0)

\* Every Outdent closes an open Indent and every Indent is closed.
Balanced(toks) ==
    /\ \A i \in DOMAIN toks : Depth(toks, i) >= 0
    /\ Depth(toks, Len(toks)) = 0

\* The token kinds that start no construct.
InvalidKinds == {"tokElse", "tokAttribute"}

\* C13: no Parse returns a tree for a token stream whose indentation is not
\* balanced or which holds, where a construct must start, a token of a kind
\* that starts none; such a Parse ends in a panic.
C13_MalformedIsFatal ==
    \A p \in DOMAIN parsers :
        parsers[p].result # 0 =>
            /\ Balanced(parsers[p].toks)
            /\ \A i \in DOMAIN parsers[p].toks :
                  parsers[p].toks[i].Kind \notin InvalidKinds

\* ------------------------------------------------------------ import claims
\* The Blocks of the tree under block b, b included.
RECURSIVE BlocksUnder(_, _)
BlocksUnder(bl, b) ==
    {b} \cup UNION {IF ch.kind = "block" THEN BlocksUnder(bl, ch.id) ELSE {} :
                      ch \in Range(bl[b].Children)}

\* Two parser instances that read the same file and have both returned.
Twins(ps, q1, q2) ==
    /\ q1 # q2
    /\ ps[q1].filename = ps[q2].filename
    /\ ps[q1].result # 0
    /\ ps[q2].result # 0

\* The trees of two parser instances of one file share no Block and no tag.
CopySemantics(ps, bl) ==
    \A q1, q2 \in DOMAIN ps :
        Twins(ps, q1, q2) =>
            /\ BlocksUnder(bl, ps[q1].result) \cap BlocksUnder(bl, ps[q2].result) = {}
            /\ TreeTags(bl, ps[q1].result) \cap TreeTags(bl, ps[q2].result) = {}

\* A step that changes a Block of the first tree changes none of the second.
ChangesOneTree(q1, q2) ==
    (\E b \in BlocksUnder(blocks, parsers[q1].result) : blocks'[b] # blocks[b]) =>
        \A b \in BlocksUnder(blocks, parsers[q2].result) : blocks'[b] = blocks[b]

\* C19: every Import token makes a parser instance of its own, which has
\* parsed its file to the end and whose root Block is the node spliced at the
\* import position; the trees of two parser instances of one file share no
\* Block, and a step that changes one of them leaves the other as it was;
\* the Parse of an extends target that already has its result parses nothing
\* again.
C19_ImportsAreCopies ==
    [][/\ CopySemantics(parsers', blocks')
       /\ \A q1, q2 \in DOMAIN parsers :
              Twins(parsers, q1, q2) => ChangesOneTree(q1, q2)
       /\ (InLoop /\ Cur.Kind = "tokImport" /\ status' = "running") =>
              /\ Len(parsers') = Len(parsers) + 1
              /\ parsers'[Len(parsers')].result = 0
              /\ parsers'[Len(parsers')].namedBlocks = NoBlocks
       /\ (Running /\ Top.fn = "parseImport") =>
              /\ parsers[Top.q].result # 0
              /\ parsers[Top.q].currenttoken = tokEOF
              /\ blocks'[Below.blk].Children =
                     Append(blocks[Below.blk].Children, BlockRef(parsers[Top.q].result))
       /\ (/\ Running /\ Top.fn = "Parse" /\ Top.pc = "loop" /\ Cur.Kind = "tokEOF"
           /\ parsers[Top.p].parent # 0) =>
              /\ parsers[parsers[Top.p].parent].result # 0
              /\ parsers' = parsers
              /\ blocks' = blocks]_vars

\* m.jade imported n.jade twice and its Parse returned: the tree holds the
\* roots of two parsers of n.jade, each with a block X of its own, and the
\* merge of the second import's parser ran after the first tree was spliced.
C19_Witness ==
    /\ status = "done"
    /\ \E q1, q2 \in DOMAIN parsers :
          /\ Twins(parsers, q1, q2)
          /\ q1 < q2
          /\ parsers[q1].filename = "n.jade"
          /\ parsers[q1].parent # 0
          /\ BlockRef(parsers[q1].result) \in Range(blocks[1].Children)
          /\ BlockRef(parsers[q2].result) \in Range(blocks[1].Children)
          /\ TreeTags(blocks, parsers[q1].result) # {}
          /\ TreeTags(blocks, parsers[q2].result) # {}

\* ------------------------------------------------------- named block claims
\* parseNamedBlock is still reading the body of NamedBlock b.
InProgress(b) ==
    \E i \in DOMAIN stack : stack[i].fn = "parseNamedBlock" /\ stack[i].blk = b

\* The positions of the stream that hold a NamedBlock token outside every
\* indented body.
Declarations(toks) ==
    {i \in DOMAIN toks : toks[i].Kind = "tokNamedBlock" /\ Depth(toks, i - 1) = 0}

\* The index, among the children of the root, of the node made from the
\* construct that starts at position i: every token outside an indented
\* body starts one, but for the Indent that opens the body of a named block.
NodeIndex(toks, i) ==
    Cardinality({j \in 1..i :
        /\ Depth(toks, j - 1) = 0
        /\ toks[j].Kind # "tokOutdent"
        /\ ~(j > 1 /\ toks[j].Kind = "tokIndent" /\ toks[j - 1].Kind = "tokNamedBlock")})

\* What parser p, which has no parent, shows at the position of its
\* declaration at token i.
InPlace(p, i) ==
    LET tok == parsers[p].toks[i]
        b == parsers[p].namedBlocks[tok.Value]
        root == parsers[p].result
        node == blocks[root].Children[NodeIndex(parsers[p].toks, i)]
    IN  /\ blocks[root].owner = p
        /\ NodeIndex(parsers[p].toks, i) \in DOMAIN blocks[root].Children
        /\ node.kind = "block"
        /\ IF tok.Modifier = ""
           THEN /\ node.id = b
                /\ p = 1 => blocks[b].Children = OwnChildren(p, tok.Value)
           ELSE /\ blocks[node.id].Children = <<>>
                /\ blocks[node.id].Name = ""
                /\ b \notin BlocksUnder(blocks, root)

CompileOps == {"CompileString", "CompileWriter", "Compile"}

\* The last call generated code for a template, whose root is c.node.
Generated == res.op \in CompileOps /\ c.node.t = "Block"

\* The positions of the calls among the children of the root.
MixinCalls == {i \in DOMAIN c.node.Children : c.node.Children[i].t = "MixinCall"}

\* The text of a body that holds nothing but literal text.
LitBody(block) == [i \in DOMAIN block.Children |-> block.Children[i].Value[1].s]

MixinTemplate ==
    /\ c.node.t = "Block"
    /\ Len(c.node.Children) >= 2
    /\ c.node.Children[1].t = "Mixin"
    /\ \A i \in 2..Len(c.node.Children) :
          /\ c.node.Children[i].t = "MixinCall"
          /\ c.node.Children[i].Name = c.node.Children[1].Name
          /\ Range(c.node.Children[i].Args) \subseteq {"V", "W", "\"a\""}

\* A plain reference, transpiled.
Transpiled(arg) == IF arg \in {"V", "W"} THEN "." \o arg ELSE arg

\* The expansion of one call: the argument at each position assigned to the
\* parameter at that position, then the body.
Expansion(mixin, call) ==
    LET n == IF Len(call.Args) < Len(mixin.Args) THEN Len(call.Args) ELSE Len(mixin.Args)
    IN  [k \in 1..n |-> "{{" \o mixin.Args[k] \o " := " \o Transpiled(call.Args[k]) \o "}}"]
          \o LitBody(mixin.Block)

RECURSIVE Expansions(_, _, _)
Expansions(mixin, children, i) ==
    IF i > Len(children) THEN <<>>
    ELSE Expansion(mixin, children[i]) \o Expansions(mixin, children, i + 1)

\* C15: a template that defines a mixin and then calls it compiles to, for
\* each call in turn, the assignments of the arguments to the parameters in
\* positional order followed by the body once, whatever the number of
\* arguments of the call.
C15_MixinCallBindsArgs ==
    (res.op = CompileStringOp /\ MixinTemplate) =>
        /\ res.err = ""
        /\ res.str = Expansions(c.node.Children[1], c.node.Children, 2) \o <<"\n">>

\* --------------------------------------------------------- raw text claims
\* The template is one Text flagged raw.
RawTextTemplate ==
    /\ c.node.t = "Block"
    /\ Len(c.node.Children) = 1
    /\ c.node.Children[1].t = "Text"
    /\ c.node.Children[1].Raw

\* A piece of the source of a Text, as it was written.
Verbatim(piece) ==
    CASE piece.k = "interp" -> "#{" \o piece.s \o "}"
      [] piece.k = "braces" -> "{{" \o piece.s \o "}}"
      [] piece.k = "nl" -> "\n"
      [] OTHER -> piece.s

\* What text/template renders a piece of the generated text to, when the
\* piece is literal text or the action of a string literal.
Literal(piece) ==
    CASE piece = "{{\"{{\"}}" -> "{{"
      [] piece = "{{\"}}\"}}" -> "}}"
      [] OTHER -> piece

\* C16: a template made of one raw Text compiles to text that renders to
\* the source of the Text as it was written, followed by the final line
\* break: no `#{...}` is replaced by an instruction.
C16_RawTextVerbatim ==
    (Compiled /\ RawTextTemplate) =>
        Flatten([i \in DOMAIN res.str |-> Literal(res.str[i])])
            = Flatten([i \in DOMAIN c.node.Children[1].Value |->
                          Verbatim(c.node.Children[1].Value[i])]) \o "\n"

\* ------------------------------------------------------- expression claims
\* The name tempvar makes of the index k.
TempName(k) == "$__jade_" \o ToString(k)

\* An instruction of the linearization: op applied to x and y, bound to t.
Instr(t, op, x, y) == [t |-> t, op |-> op, x |-> x, y |-> y]

\* The pieces visitExpression writes for the instructions.
RECURSIVE InstrPieces(_)
InstrPieces(instrs) ==
    IF instrs = <<>> THEN <<>>
    ELSE <<"{{" \o Head(instrs).t \o " := ", Head(instrs).op \o " ",
           Head(instrs).x \o " " \o Head(instrs).y \o "}}">>
           \o InstrPieces(Tail(instrs))

\* The functions of the runtime the instructions call.
RuntimeApply(op, x, y) ==
    CASE op = "__jade_add" -> x + y
      [] op = "__jade_sub" -> x - y
      [] op = "__jade_mul" -> x * y
      [] op = "__jade_lss" -> x < y

\* The data of the tests: A = 2, B = 3, C = 4.
TestData == (".A" :> 2) @@ (".B" :> 3) @@ (".C" :> 4)

\* The value the last instruction binds when the instructions run in order.
RECURSIVE Value(_, _)
Value(instrs, env) ==
    LET in == Head(instrs)
        v == RuntimeApply(in.op, env[in.x], env[in.y])
    IN  IF Len(instrs) = 1 THEN v ELSE Value(Tail(instrs), (in.t :> v) @@ env)

\* The template is one Text that interpolates the expression.
Interpolates(expression) ==
    c.node = Block(<<Text(<<Piece("interp", expression)>>, FALSE)>>)

\* The text of a template that interpolates an expression lowered to the
\* instructions, the last of which binds the value.
Lowered(instrs) ==
    res.str = InstrPieces(instrs) \o <<"{{" \o instrs[Len(instrs)].t \o "}}", "\n">>

\* C17: `A + B * C` compiles to the multiplication of B and C bound to a
\* temporary, then the addition of A and that temporary, whose value for 2,
\* 3, 4 is 14; `C - A < B` to the subtraction of A from C bound to a
\* temporary, then the comparison of that temporary with B, true for 4, 2, 3;
\* `V + W * 2` to the multiplication first and the addition of V and the
\* product after it.
C17_PrecedenceRespected ==
    Compiled =>
        LET t1 == TempName(c.tv - 1)
            t2 == TempName(c.tv)
            sum == <<Instr(t1, "__jade_mul", ".B", ".C"), Instr(t2, "__jade_add", ".A", t1)>>
            less == <<Instr(t1, "__jade_sub", ".C", ".A"), Instr(t2, "__jade_lss", t1, ".B")>>
        IN  /\ Interpolates("A + B * C") => Lowered(sum) /\ Value(sum, TestData) = 14
            /\ Interpolates("C - A < B") => Lowered(less) /\ Value(less, TestData) = TRUE
            /\ Interpolates("V + W * 2") =>
                  Lowered(<<Instr(t1, "__jade_mul", ".W", "2"),
                            Instr(t2, "__jade_add", ".V", t1)>>)

\* `C - A < B` was compiled by a Compiler that had handed out no temporary.
C17_Witness ==
    /\ Compiled
    /\ Interpolates("C - A < B")
    /\ c.tv = 2
    /\ Len(res.str) = 8
    /\ res.str[6] = "$__jade_1 .B}}"

\* ------------------------------------------------- single assignment claims
\* What an instruction may take as an operand: a reference that is not a
\* temporary, or a temporary.
Atoms ==
    {".V", ".W", ".G1", ".G2", ".A", ".B", ".C", ".", "$x", "nil", "1", "2",
     "\"a\"", "\"$\"", "\"__DOLLAR__\"", ""}
Temps == {TempName(k) : k \in 1..MaxTemp}
Operands == Atoms \cup Temps

\* The pieces of generated text that bind the temporary of index k: the
\* head of a binary or unary instruction, a negation, a pipe, a selector, a
\* method call, a function call.
BindPieces ==
    [k \in 1..MaxTemp |->
        LET t == "{{" \o TempName(k) \o " := " IN
        {t}
        \cup {t \o "not " \o x \o "}}" : x \in Operands}
        \cup {t \o x \o " | " \o y \o "}}" : x \in Operands, y \in Operands}
        \cup {t \o x \o ".F}}" : x \in Operands}
        \cup {t \o x \o ".F " : x \in Operands}
        \cup {t \o f : f \in builtinFunctions \cup FuncNames \cup Atoms}]

\* The pieces of generated text that use the temporary of index k: as an
\* operand of an instruction, or in the action that consumes the value.
UsePieces ==
    [k \in 1..MaxTemp |->
        LET t == TempName(k) IN
        {t, t \o "}}"}
        \cup {t \o " " \o y \o "}}" : y \in Operands}
        \cup {y \o " " \o t \o "}}" : y \in Operands}
        \cup {"{{" \o u \o " := not " \o t \o "}}" : u \in Temps}
        \cup {"{{" \o u \o " := " \o t \o " | " \o y \o "}}" : u \in Temps, y \in Operands}
        \cup {"{{" \o u \o " := " \o y \o " | " \o t \o "}}" : u \in Temps, y \in Operands}
        \cup {"{{" \o u \o " := " \o t \o ".F}}" : u \in Temps}
        \cup {"{{" \o u \o " := " \o t \o ".F " : u \in Temps}
        \cup {"{{" \o t \o "}}", "{{ safeJS " \o t \o "}}", "{{unescaped " \o t \o "}}",
              "{{if " \o t \o "}}", "{{$x := " \o t \o "}}", "{{$y := " \o t \o "}}",
              "{{range $x := " \o t \o "}}", "{{range $x, $y := " \o t \o "}}"}]

\* The positions of the text that bind, and that use, the temporary k.
Bound(text, k) == {i \in DOMAIN text : text[i] \in BindPieces[k]}
Used(text, k) == {i \in DOMAIN text : text[i] \in UsePieces[k]}

\* The text the last call generated: what reached the writer, or what the
\* buffer held when the traversal panicked.
EmittedText == c.buf \o w

\* C18: in the text a call generates no temporary is bound twice, every use
\* of a temporary comes after the instruction that binds it, and no name
\* beyond the Compiler's counter is bound; the text of a call binds no
\* temporary the text of the call before it bound; and the first text a
\* Compiler generates without a panic binds every temporary handed out.
C18_SingleAssignment ==
    /\ c.tv <= MaxTemp
    /\ \A k \in 1..MaxTemp :
          /\ Cardinality(Bound(EmittedText, k)) <= 1
          /\ \A i \in Used(EmittedText, k) : \E j \in Bound(EmittedText, k) : j < i
          /\ k > c.tv => Bound(EmittedText, k) = {}
          /\ (res.op \in CompileOps /\ before.op \in CompileOps) =>
                (Bound(before.str, k) = {} \/ Bound(EmittedText, k) = {})
    /\ (ops = 2 /\ res.op \in CompileOps /\ raised = "") =>
          \A k \in 1..c.tv : Cardinality(Bound(EmittedText, k)) = 1

\* The second CompileString of `V != W` on one Compiler: the first bound
\* the temporaries 1 and 2, the second binds 3 and 4 and uses 3 in the
\* negation that binds 4.
C18_Witness ==
    /\ res.op = CompileStringOp
    /\ before.op = CompileStringOp
    /\ c.tv = 4
    /\ Bound(before.str, 1) # {}
    /\ Bound(before.str, 2) # {}
    /\ Bound(res.str, 3) # {}
    /\ Bound(res.str, 4) # {}
    /\ Used(res.str, 3) = Bound(res.str, 4)
    /\ Used(res.str, 4) # {}

\* ------------------------------------------------------ attribute claims
\* The token carries a guard: its own Condition, or that of an entry of an
\* attribute list.
CarriesGuard(tok) ==
    \/ tok.Data.Condition # ""
    \/ /\ tok.Kind = "tokAttributeList"
       /\ \E i \in DOMAIN tok.Children : tok.Children[i].Data.Condition # ""

DeclarationKinds == {"tokId", "tokClassName", "tokAttribute"}
HeaderKinds == DeclarationKinds \cup {"tokAttributeList", "tokText", "tokBuffered"}

\* The header line of the tag a stream starts with: the token that makes the
\* tag and the declarations and same-line content that follow it.
HeaderLine(toks) ==
    IF toks = <<>> \/ toks[1].Kind \notin {"tokTag", "tokClassName", "tokId"} THEN {}
    ELSE {i \in DOMAIN toks : \A j \in 2..i : toks[j].Kind \in HeaderKinds}

\* C21: once Parse is over on a stream that starts with a tag whose header
\* line carries a guard (on an Id, a ClassName, an Attribute or an entry of
\* an AttributeList), Parse has panicked: no tree was returned.
C21_HeaderGuardFatal ==
    (/\ parsed.k # "none"
     /\ \E i \in HeaderLine(scanned.toks) : CarriesGuard(scanned.toks[i]))
        => parsed.k = "panic"

\* The one declaration of a block of the catalogue: the index of the token
\* after the first tokIndent, when the stream is a construct (or nothing)
\* followed by a block that starts with a declaration; 0 otherwise.
DeclaredAt(toks) ==
    LET opens == {j \in DOMAIN toks : toks[j].Kind = "tokIndent"}
        j == CHOOSE k \in opens : \A l \in opens : k <= l
    IN  IF /\ opens # {}
           /\ j < Len(toks)
           /\ toks[j + 1].Kind \in DeclarationKinds
           /\ (j = 1 \/ toks[1].Kind \in {"tokTag", "tokIf", "tokEach"})
           /\ \A l \in 2..(j - 1) : toks[l].Kind \in DeclarationKinds
        THEN j + 1 ELSE 0

\* The tag holds the declaration among its attributes, guard included, and
\* no child of the tag was made from it.
MergedIntoTag(tag, tok) ==
    /\ AttributeOf(tok, tok.Data.Condition) \in Range(tag.Attributes)
    /\ \A i \in DOMAIN tag.Block.Children :
          ~(/\ tag.Block.Children[i].t = "Tag"
            /\ AttributeOf(tok, "") \in Range(tag.Block.Children[i].Attributes))

\* C22: once Parse is over on a stream whose first block starts with a bare
\* Id, ClassName or Attribute: if the block is that of a tag, Parse returned
\* a tree in which the tag holds the declaration as an attribute with its
\* guard and none of the tag's children was made from it; if the block is
\* that of a condition or a loop, or a block of its own, Parse panicked.
C22_BlockDeclarationsMerge ==
    (/\ parsed.k # "none"
     /\ scanned.blank = -1
     /\ DeclaredAt(scanned.toks) # 0)
        => IF scanned.toks[1].Kind = "tokTag"
           THEN /\ parsed.k = "tree"
                /\ MergedIntoTag(parsed.node.Children[1],
                                 scanned.toks[DeclaredAt(scanned.toks)])
           ELSE parsed.k = "panic"

\* ------------------------------------------------------ condition claims
\* The stream has an `else` that neither `if` nor an indented block follows.
DanglingElse(toks) ==
    \E i \in DOMAIN toks :
        /\ toks[i].Kind = "tokElse"
        /\ (i = Len(toks) \/ toks[i + 1].Kind \notin {"tokIf", "tokIndent"})

\* The stream is `if`, a body, `else if`, ...: tokens 5 and 6.
StartsElseIf(toks) ==
    /\ Len(toks) >= 6
    /\ toks[1].Kind = "tokIf" /\ toks[2].Kind = "tokIndent"
    /\ toks[5].Kind = "tokElse" /\ toks[6].Kind = "tokIf"

\* C23: once Parse is over, no Condition had its Positive or its Negative
\* assigned twice; a stream with an `else` that neither `if` nor Indent
\* follows made Parse panic; and in the tree of a stream that starts with
\* `if`, a body and `else if`, the Negative of the first Condition is a
\* Block whose one child is the Condition of the `else if`.
C23_IfElseShape ==
    parsed.k # "none" =>
        /\ \A i, j \in DOMAIN parsed.sets : parsed.sets[i] = parsed.sets[j] => i = j
        /\ DanglingElse(scanned.toks) => parsed.k = "panic"
        /\ (parsed.k = "tree" /\ StartsElseIf(scanned.toks)) =>
              LET cnd == parsed.node.Children[1] IN
              /\ cnd.t = "Condition"
              /\ cnd.Negative.t = "Block"
              /\ Len(cnd.Negative.Children) = 1
              /\ cnd.Negative.Children[1].t = "Condition"
              /\ cnd.Negative.Children[1].Expression = scanned.toks[6].Value

\* ------------------------------------------------------ inline tag claims
\* The index of the semicolon that ends the header line of the tag the
\* stream starts with, when a token that opens a tag follows it and the
\* header carries no guard; 0 otherwise.
InlineAt(toks) ==
    LET line == HeaderLine(toks)
        s == Cardinality(line) + 1
    IN  IF /\ line # {}
           /\ s < Len(toks)
           /\ toks[s].Kind = "tokSemicolon"
           /\ toks[s + 1].Kind \in {"tokTag", "tokClassName", "tokId"}
           /\ \A i \in line : ~CarriesGuard(toks[i])
        THEN s ELSE 0

\* The same-line content of the header: its Text and Buffered tokens.
SameLine(toks) ==
    {i \in HeaderLine(toks) : i >= 2 /\ toks[i].Kind \in {"tokText", "tokBuffered"}}

\* C24: once Parse is over on a stream that starts with a tag whose header
\* line ends in a semicolon followed by a tag, Parse returned a tree in
\* which the children of the first tag are the same-line content of its
\* header followed by exactly one tag, the one after the semicolon.
C24_SemicolonNestsOneTag ==
    (/\ parsed.k # "none"
     /\ scanned.blank = -1
     /\ InlineAt(scanned.toks) # 0)
        => /\ parsed.k = "tree"
           /\ LET tag == parsed.node.Children[1]
                  n == Cardinality(SameLine(scanned.toks))
                  inner == scanned.toks[InlineAt(scanned.toks) + 1]
              IN  /\ tag.Block.t = "Block"
                  /\ Len(tag.Block.Children) = n + 1
                  /\ \A i \in 1..n : tag.Block.Children[i].t \in {"Text", "Buffered"}
                  /\ tag.Block.Children[n + 1].t = "Tag"
                  /\ tag.Block.Children[n + 1].Name =
                        (IF inner.Kind = "tokTag" THEN inner.Value ELSE "div")

\* ------------------------------------------------------------ blank claims
\* C25: once Parse is over on a stream made of a stream of the catalogue by
\* putting one tokBlank between two of its tokens (or before the first, or
\* after the last): if Parse of the stream without the blank returns a
\* tree, Parse of the stream with it returned the same tree.
C25_BlankSkippable ==
    (/\ parsed.k # "none"
     /\ scanned.blank >= 0
     /\ ParseTokens(scanned.base).k = "tree")
        => /\ parsed.k = "tree"
           /\ parsed.node = ParseTokens(scanned.base).node

\* ---------------------------------------------------- termination claims
\* The file the parser of f extends, files being the streams of the files
\* opened so far: the target of the first tokExtends of
\* its stream, when nothing before it stops the parse ("" when there is
\* none, or when the file was not opened yet).
ExtendsIn(files, f) ==
    IF f \notin Files THEN ""
    ELSE LET toks == files[f]
             at == {i \in DOMAIN toks : toks[i].Kind = "tokExtends"}
             i == CHOOSE k \in at : \A l \in at : k <= l
         IN  IF /\ at # {}
                /\ \A j \in 1..(i - 1) :
                      toks[j].Kind \in {"tokTag", "tokNamedBlock", "tokIndent", "tokOutdent"}
                /\ Balanced(SubSeq(toks, 1, i - 1))
                /\ Redeclared(SubSeq(toks, 1, i - 1)) = {}
             THEN RelativeFile(toks[i].Value)
             ELSE ""

\* The chain of extends that starts at m.jade never ends: among three files,
\* a chain of three steps has come back to a file it left.
CyclicIn(files) ==
    \E f \in {ExtendsIn(files, "m.jade")} :
    \E g \in {ExtendsIn(files, f)} : ExtendsIn(files, g) # ""
Cyclic == CyclicIn(fs)

\* C26: when the extends of m.jade run in a cycle, no step ends Parse with a
\* tree or with a panic (no Parse of the run returns, none caches a result,
\* no error is reported), and every parseExtends of the run makes one more
\* parser, which starts with no result, and calls its Parse.
C26_ExtendsCycleUnbounded ==
    [][CyclicIn(fs') =>
         /\ status' \notin {"done", "error"}
         /\ ret' = 0
         /\ panicMsg' = ""
         /\ \A q \in DOMAIN parsers' : parsers'[q].result = 0
         /\ (InLoop /\ Cur.Kind = "tokExtends" /\ status' = "running") =>
               /\ Len(parsers') = Len(parsers) + 1
               /\ parsers'[Len(parsers')].filename = RelativeFile(Cur.Value)
               /\ Len(stack') = Len(stack) + 2
               /\ stack'[Len(stack')].fn = "Parse"
               /\ stack'[Len(stack')].p = Len(parsers')]_vars

\* m.jade and n.jade extend each other and the recursion has filled the
\* stack with one parser per extends, none of which returned.
C26_Witness ==
    /\ Cyclic
    /\ ExtendsIn(fs, "m.jade") = "n.jade" /\ ExtendsIn(fs, "n.jade") = "m.jade"
    /\ status = "fatal"
    /\ Len(parsers) >= 6
    /\ \A q \in DOMAIN parsers :
          /\ parsers[q].result = 0
          /\ parsers[q].filename = (IF q % 2 = 1 THEN "m.jade" ELSE "n.jade")

\* The tokens the scanner of psr has not delivered yet, the current one included.
Remaining(psr) ==
    IF psr.currenttoken.Kind = "tokEOF" THEN 0 ELSE Len(psr.toks) - psr.pos + 1

\* The stream needs no file: it holds neither extends nor import.
NoFileAccess(toks) ==
    \A i \in DOMAIN toks : toks[i].Kind \notin {"tokExtends", "tokImport"}

\* C27: on a stream that needs no file, every step of the loop of Parse and
\* of the loop of parseBlock that starts on a token other than tokEOF either
\* consumes a token or ends the call with a panic.
C27_LoopsConsume ==
    [][(/\ InLoop
        /\ Cur.Kind # "tokEOF"
        /\ NoFileAccess(parsers[Top.p].toks))
          => \/ status' = "error"
             \/ Remaining(parsers'[Top.p]) < Remaining(parsers[Top.p])]_vars

\* ------------------------------------------------------------ sigil claims
\* The string literal `"$"` as expression parsing sees it, and as written.
PlaceholderLit == "\"__DOLLAR__\""
DollarLit == "\"$\""

\* The pieces of generated text that hold the operand x: alone, as the left
\* or the right operand of an instruction, or inside the action that
\* consumes a final reference.
PiecesWith(x) ==
    {x, x \o "}}", "{{" \o x \o "}}", "{{ safeJS " \o x \o "}}",
     "{{unescaped " \o x \o "}}"}
    \cup {x \o " " \o y \o "}}" : y \in Operands}
    \cup {y \o " " \o x \o "}}" : y \in Operands}
    \cup {"{{" \o t \o " := not " \o x \o "}}" : t \in Temps}

\* The positions of the text that hold the operand x.
Holding(text, x) == {i \in DOMAIN text : text[i] \in PiecesWith(x)}

\* The template is one Buffered of the expression.
Buffers(expression) == c.node = Block(<<Buffered(expression, TRUE)>>)

\* The template has a Text that interpolates the expression.
InterpolatesIn(expression) ==
    /\ c.node.t = "Block"
    /\ \E i \in DOMAIN c.node.Children :
          /\ c.node.Children[i].t = "Text"
          /\ \E j \in DOMAIN c.node.Children[i].Value :
                c.node.Children[i].Value[j] = Piece("interp", expression)

\* C28: no piece of the text CompileString returns holds the placeholder
\* `__DOLLAR__`, and the text generated for an expression with the string
\* literal `"$"` holds the literal with its `$`: as the final reference, as
\* the operand of a binary instruction and as the argument of a call.
C28_SigilRoundTrips ==
    (Compiled /\ raised = "") =>
          /\ Holding(EmittedText, PlaceholderLit) = {}
          /\ InterpolatesIn(DollarLit) => Holding(EmittedText, DollarLit) # {}
          /\ Buffers("\"$\" + V") => Holding(EmittedText, DollarLit) # {}
          /\ Buffers("foo(\"$\")") => Holding(EmittedText, DollarLit) # {}

\* The part of C28 about the final reference only.
C28_FinalReferenceRestored ==
    (Compiled /\ raised = "" /\ InterpolatesIn(DollarLit)) =>
        /\ Holding(EmittedText, PlaceholderLit) = {}
        /\ Holding(EmittedText, DollarLit) # {}

\* A template that interpolates the literal `"$"` alone was compiled.
C28_FinalReferenceWitness ==
    /\ Compiled
    /\ raised = ""
    /\ InterpolatesIn(DollarLit)
    /\ \E i \in DOMAIN res.str : res.str[i] = "{{\"$\"}}"

\* ------------------------------------------------------- failed parse claims
\* The parsers whose Parse is in progress: those with a frame on the stack.
Parsing(stk) == {stk[i].p : i \in {j \in DOMAIN stk : stk[j].fn = "Parse"}}

\* The results the parsers ps cache are those of qs, and the parsers of ps
\* that qs does not have cache none.
SameResults(ps, qs) ==
    \A p \in DOMAIN ps :
        ps[p].result = (IF p \in DOMAIN qs THEN qs[p].result ELSE 0)

\* C29: the step in which Parse panics sets no parser's result, and leaves
\* unset the result of every parser whose Parse was in progress, the root
\* parser among them; and a Parse or ParseFile of the Compiler that returns
\* an error leaves the Compiler's node and filename as they were.
C29_FailedParseKeepsState ==
    [][/\ (status = "running" /\ status' = "error") =>
            /\ SameResults(parsers', parsers)
            /\ \A p \in Parsing(stack) : parsers'[p].result = 0
            /\ parsers'[1].result = 0
            /\ ret' = ret
       /\ (ops' = ops + 1 /\ res'.op \in {"Parse", "ParseFile"} /\ res'.err # "") =>
            /\ c'.node = c.node
            /\ c'.filename = c.filename]_vars

\* ParseFile of m.jade failed after its parent n.jade had been parsed and
\* cached, on a Compiler that held the tree of an earlier Parse.
C29_Witness ==
    /\ res.op = "ParseFile"
    /\ res.err # ""
    /\ res.err = panicMsg
    /\ status = "returned"
    /\ c.node = Block(<<Lit("t")>>)
    /\ c.filename = ""
    /\ parsers[1].result = 0
    /\ \E p \in DOMAIN parsers : parsers[p].result # 0

\* Parse of a string failed on a Compiler that held the tree and the name
\* of the file an earlier ParseFile had parsed.
C29_ParseAfterFile ==
    /\ res.op = "Parse"
    /\ res.err # ""
    /\ status = "returned"
    /\ c.filename = "m.jade"
    /\ c.node = BlockRef(ret)

====
